---- MODULE Spec2Model ----
\* Dataflow execution core of plane-hacks: expression tree -> channel-wired
\* operator graph (execution.rs) -> sequential / data-parallel initialisation.
EXTENDS Integers, Sequences, FiniteSets, TLC

\* ---------------------------------------------------------------- bounds
MaxNodes   == 5   \* largest expression tree (number of ParseNodes)
MaxSubs    == 2   \* external ExecutionGraph::subscribe() calls
MaxInits   == 2   \* initialize()/initialize_par_iter() calls per graph
MaxWorkers == 2   \* largest worker pool
MaxVec     == 3   \* longest operand vector handed to an operator closure
MaxBuildNodes == 3 \* largest arbitrary ParseNode tree handed to build_execution_graph
MaxPieces  == 3   \* pieces of text a lexed line is put together from
MaxLines   == 2   \* lines of a multi-line program
MaxToks    == 4   \* longest arbitrary token sequence handed to parse
MaxChain   == 3   \* terms of the longest operator chain handed to parse
MaxEvalLines == 2 \* lines of a program handed to evaluate
MaxOpChars == 3   \* characters of the longest line of operator characters
MaxRows    == 2   \* items of the longest list handed to the DataFrame

VARIABLES
    tree,      \* the ParseNode handed to build_execution_graph
    gstate,    \* "unbuilt" | "built" | "build_err" (Err(())) | "build_panic" (unreachable!() hit)
    ops,       \* ExecutionGraph.ops : sequence of operator nodes
    chans,     \* channel id -> [q : queued values, rx : receiver alive, n : values ever sent,
               \*                last : last value sent, at : calls started when it was created]
    task,      \* per node of ops: position of its compute() in the current call
    mode,      \* "none" | "seq" (initialize) | "par" (initialize_par_iter)
    pos,       \* sequential iterator position (index into the iteration order)
    ret,       \* result of the last finished initialisation call
    calls,     \* initialisation calls started so far, oldest first: "seq" | "par"
    ncompute,  \* per node: compute() invocations so far
    nworkers,  \* size of the worker pool (0 until the pool is first used)
    opcall,    \* an operator closure about to be applied: <<[tok, x, y]>> (<<>> : none)
    opres,     \* <<what the closure returned>>
    program,   \* the text handed to lex_multiline (a sequence of characters)
    lineres,   \* per line of the program: the result of its lex(), once finished
    mlres,     \* <<what lex_multiline returned>>
    toks,      \* the token sequence handed to parse
    parseres,  \* <<what parse returned>>
    ev,        \* the running evaluate(): where it is, its asts, graphs, results and outcome
    df         \* the DataFrame: its columns, and the last call made on it with its outcome

\* the front end (operator closures, lexer, parser)
fvars == <<opcall, opres, program, lineres, mlres, toks, parseres, ev, df>>
\* the execution graph
gvars == <<tree, gstate, ops, chans, task, mode, pos, ret, calls, ncompute, nworkers>>

vars == <<tree, gstate, ops, chans, task, mode, pos, ret, calls, ncompute, nworkers,
          opcall, opres, program, lineres, mlres, toks, parseres, ev, df>>

\* ---------------------------------------------------------------- values
\* Var: a tagged vector. Booleans are stored as 0/1.
Var(d, xs) == [dtype |-> d, v |-> xs]
NoVar == [dtype |-> "None", v |-> <<>>]

Min(a, b) == IF a <= b THEN a ELSE b

\* f64 values are written m * 10^-e, with no trailing zero in the fraction, so
\* that equal numbers are equal records. The literals used are binary fractions,
\* on which f64 arithmetic is exact.
RECURSIVE F64(_, _)
F64(m, e) == IF e > 0 /\ m % 10 = 0 THEN F64(m \div 10, e - 1) ELSE [m |-> m, e |-> e]

RECURSIVE Pow10(_)
Pow10(n) == IF n = 0 THEN 1 ELSE 10 * Pow10(n - 1)

\* `*x as f64`
AsF64(i) == F64(i, 0)

\* f64 +, -, *
F64Add(a, b) ==
    LET e == IF a.e >= b.e THEN a.e ELSE b.e
    IN F64(a.m * Pow10(e - a.e) + b.m * Pow10(e - b.e), e)
F64Sub(a, b) ==
    LET e == IF a.e >= b.e THEN a.e ELSE b.e
    IN F64(a.m * Pow10(e - a.e) - b.m * Pow10(e - b.e), e)
F64Mul(a, b) == F64(a.m * b.m, a.e + b.e)

\* Token / Term
TermTok(k, x) == [t |-> "Term", kind |-> k, val |-> x]
OpTok(name)   == [t |-> name, kind |-> "-", val |-> 0]

ParseNode(tok, deps) == [token |-> tok, dependencies |-> deps]

\* ---------------------------------------------------------------- operator functions
\* Mutant of Zip: the subtraction closure takes its operands the wrong way round
Zip_SubSwapped(op, xs, ys) ==
    [i \in 1..Min(Len(xs), Len(ys)) |->
        CASE op = "add" -> xs[i] + ys[i]
          [] op = "mul" -> xs[i] * ys[i]
          [] OTHER      -> ys[i] - xs[i]]

\* iter().zip().map().collect(): elementwise over the shorter operand
Zip(op, xs, ys) ==
    [i \in 1..Min(Len(xs), Len(ys)) |->
        CASE op = "add" -> xs[i] + ys[i]
          [] op = "mul" -> xs[i] * ys[i]
          [] OTHER      -> xs[i] - ys[i]]

\* Mutant of ZipF64: every element of the left operand meets the first of the right
ZipF64_FirstOfRight(op, xs, ys) ==
    [i \in 1..Min(Len(xs), Len(ys)) |->
        CASE op = "add" -> F64Add(xs[i], ys[1])
          [] op = "mul" -> F64Mul(xs[i], ys[1])
          [] OTHER      -> F64Sub(xs[i], ys[1])]

\* the same over f64 elements
ZipF64(op, xs, ys) ==
    [i \in 1..Min(Len(xs), Len(ys)) |->
        CASE op = "add" -> F64Add(xs[i], ys[i])
          [] op = "mul" -> F64Mul(xs[i], ys[i])
          [] OTHER      -> F64Sub(xs[i], ys[i])]

\* the `(*x as f64)` applied to each element of an i64 operand
ToF64(xs) == [i \in 1..Len(xs) |-> AsF64(xs[i])]

\* The closure selected by `match &parser.token`: Plus, Mul, and the
\* binding pattern `Sub`, which matches every remaining token (the `_ => todo!()`
\* arm after it is never taken).
OpFn(tok) ==
    CASE tok.t = "Plus" -> "add"
      [] tok.t = "Mul"  -> "mul"
      [] OTHER          -> "sub"

\* Mutant of F: a mixed pair is computed in the integers
F_MixedAsInt(op, x, y) ==
    CASE x.dtype = "Int"   /\ y.dtype = "Int"   -> [ok |-> TRUE, e |-> "", val |-> Var("Int",   Zip(op, x.v, y.v))]
      [] x.dtype = "Float" /\ y.dtype = "Float" -> [ok |-> TRUE, e |-> "", val |-> Var("Float", ZipF64(op, x.v, y.v))]
      [] x.dtype = "Float" /\ y.dtype = "Int"   -> [ok |-> TRUE, e |-> "", val |-> Var("Int", Zip(op, [i \in 1..Len(x.v) |-> x.v[i].m], y.v))]
      [] x.dtype = "Int"   /\ y.dtype = "Float" -> [ok |-> TRUE, e |-> "", val |-> Var("Int", Zip(op, x.v, [i \in 1..Len(y.v) |-> y.v[i].m]))]
      [] OTHER -> [ok |-> FALSE, e |-> "Invalid types", val |-> NoVar]

\* The closure body: promotion table over (x.dtype, y.dtype)
F(op, x, y) ==
    CASE x.dtype = "Int"   /\ y.dtype = "Int"   -> [ok |-> TRUE, e |-> "", val |-> Var("Int",   Zip(op, x.v, y.v))]
      [] x.dtype = "Float" /\ y.dtype = "Float" -> [ok |-> TRUE, e |-> "", val |-> Var("Float", ZipF64(op, x.v, y.v))]
      [] x.dtype = "Float" /\ y.dtype = "Int"   -> [ok |-> TRUE, e |-> "", val |-> Var("Float", ZipF64(op, x.v, ToF64(y.v)))]
      [] x.dtype = "Int"   /\ y.dtype = "Float" -> [ok |-> TRUE, e |-> "", val |-> Var("Float", ZipF64(op, ToF64(x.v), y.v))]
      [] OTHER -> [ok |-> FALSE, e |-> "Invalid types", val |-> NoVar]

\* ---------------------------------------------------------------- graph construction
NoChan == <<0>>
\* The channel created by the k-th external subscribe()
ExtChan(k) == <<0, k>>
IsExt(c) == Len(c) = 2 /\ c[1] = 0

ConstantNode(item, path) ==
    [kind |-> "Constant", f |-> "none", item |-> item, broadcasts_to |-> <<>>,
     lhs |-> NoChan, rhs |-> NoChan, path |-> path]

BinOpNode(f, lhs, rhs, path) ==
    [kind |-> "BinOp", f |-> f, item |-> NoVar, broadcasts_to |-> <<>>,
     lhs |-> lhs, rhs |-> rhs, path |-> path]

BuildErr == [st |-> "err", ops |-> <<>>]
BuildPanic == [st |-> "panic", ops |-> <<>>]

\* Constant::new
ConstantNew(p, path) ==
    IF p.token.t = "Term"
    THEN CASE p.token.kind = "BoolV"  -> [st |-> "ok", ops |-> <<ConstantNode(Var("Bool",  <<p.token.val>>), path)>>]
           [] p.token.kind = "IntV"   -> [st |-> "ok", ops |-> <<ConstantNode(Var("Int",   <<p.token.val>>), path)>>]
           [] p.token.kind = "FloatV" -> [st |-> "ok", ops |-> <<ConstantNode(Var("Float", <<p.token.val>>), path)>>]
           [] OTHER -> BuildPanic
    ELSE BuildErr

\* Mutant of Merge: the other graph's nodes are put in front
Merge_Prepend(self, other) == other \o self

\* ExecutionGraph::merge
Merge(self, other) == self \o other

\* ExecutionGraph::current_mut : index of ops.first_mut()
CurrentMut(g) == 1

\* Mutant of NodeSubscribe: the sender is registered on every node of the graph
NodeSubscribe_All(g, i, c) == [j \in DOMAIN g |-> [g[j] EXCEPT !.broadcasts_to = Append(@, c)]]

\* Constant::subscribe / BinaryOperator::subscribe on node i, the new channel being c
NodeSubscribe(g, i, c) == [g EXCEPT ![i].broadcasts_to = Append(@, c)]

RECURSIVE BuildExecutionGraph(_, _)
\* Mutant of BinaryOperatorNew: a right child that fails to build is left out
BinaryOperatorNew_SkipFailedRhs(p, path) ==
    IF Len(p.dependencies) = 2
    THEN LET lhs_b == BuildExecutionGraph(p.dependencies[1], path \o <<1>>) IN
         IF lhs_b.st # "ok" THEN lhs_b
         ELSE LET rhs_b == BuildExecutionGraph(p.dependencies[2], path \o <<2>>) IN
              IF rhs_b.st # "ok" THEN lhs_b
              ELSE LET lc     == path \o <<1>>
                       rc     == path \o <<2>>
                       lhs_op == NodeSubscribe(lhs_b.ops, CurrentMut(lhs_b.ops), lc)
                       rhs_op == NodeSubscribe(rhs_b.ops, CurrentMut(rhs_b.ops), rc)
                       binop  == BinOpNode(OpFn(p.token), lc, rc, path)
                   IN [st |-> "ok", ops |-> Merge(Merge(<<binop>>, lhs_op), rhs_op)]
    ELSE BuildErr

\* BinaryOperator::new ; the channel a child feeds is named by the child's path
BinaryOperatorNew(p, path) ==
    IF Len(p.dependencies) = 2
    THEN LET lhs_b == BuildExecutionGraph(p.dependencies[1], path \o <<1>>) IN
         IF lhs_b.st # "ok" THEN lhs_b
         ELSE LET rhs_b == BuildExecutionGraph(p.dependencies[2], path \o <<2>>) IN
              IF rhs_b.st # "ok" THEN rhs_b
              ELSE LET lc     == path \o <<1>>
                       rc     == path \o <<2>>
                       lhs_op == NodeSubscribe(lhs_b.ops, CurrentMut(lhs_b.ops), lc)
                       rhs_op == NodeSubscribe(rhs_b.ops, CurrentMut(rhs_b.ops), rc)
                       binop  == BinOpNode(OpFn(p.token), lc, rc, path)
                   IN [st |-> "ok", ops |-> Merge(Merge(<<binop>>, lhs_op), rhs_op)]
    ELSE BuildErr

\* Mutant of BuildExecutionGraph: every two-child node is taken for a binary operator
BuildExecutionGraph_AnyBinary(p, path) ==
    IF p.token.t # "Term" /\ Len(p.dependencies) = 2
    THEN BinaryOperatorNew(p, path)
    ELSE IF p.token.t = "Term"
         THEN ConstantNew(p, path)
         ELSE BuildErr

\* ExecutionGraph::build_execution_graph
BuildExecutionGraph(p, path) ==
    IF p.token.t \in {"Plus", "Neg", "Mul"} /\ Len(p.dependencies) = 2
    THEN BinaryOperatorNew(p, path)
    ELSE IF p.token.t = "Term"
         THEN ConstantNew(p, path)
         ELSE BuildErr

\* ---------------------------------------------------------------- inputs
Literals == {TermTok("IntV", 3), TermTok("BoolV", 1)}
BinToks  == {OpTok("Plus"), OpTok("Mul"), OpTok("Neg")}

RECURSIVE TreesOfSize(_)
TreesOfSize(n) ==
    IF n = 1 THEN {ParseNode(l, <<>>) : l \in Literals}
    ELSE IF n < 1 \/ n % 2 = 0 THEN {}
    ELSE UNION {
           {ParseNode(o, <<a, b>>) : o \in BinToks, a \in TreesOfSize(k), b \in TreesOfSize(n - 1 - k)}
           : k \in 1..(n - 2)}

\* the tree of "5 * (10 + 3)" (tests::end_to_end)
Tree65 ==
    ParseNode(OpTok("Mul"),
              <<ParseNode(TermTok("IntV", 5), <<>>),
                ParseNode(OpTok("Plus"), <<ParseNode(TermTok("IntV", 10), <<>>),
                                           ParseNode(TermTok("IntV", 3), <<>>)>>)>>)

Trees == UNION {TreesOfSize(n) : n \in 1..MaxNodes} \cup {Tree65}

\* All channels wired into a node list
ChansOf(g) == UNION {{g[i].broadcasts_to[k] : k \in 1..Len(g[i].broadcasts_to)} : i \in 1..Len(g)}

EmptyChan(at) == [q |-> <<>>, rx |-> TRUE, n |-> 0, last |-> NoVar, at |-> at]
IdleTask  == [pc |-> "idle", l |-> NoVar, r |-> NoVar, e |-> ""]

\* no DataFrame has been constructed
DfIdle == [item |-> <<>>, prev |-> <<>>, op |-> "none", key |-> "", len |-> 0, ret |-> "none"]

\* no evaluate() is running
EvIdle == [pc |-> "idle", asts |-> <<>>, gs |-> <<>>, k |-> 0, results |-> <<>>, out |-> <<>>]

\* nothing is going on in the front end
FrontIdle ==
    /\ opcall = <<>> /\ opres = <<>>
    /\ program = <<>> /\ lineres = <<>> /\ mlres = <<>>
    /\ toks = <<>> /\ parseres = <<>> /\ ev = EvIdle /\ df = DfIdle

Init ==
    /\ FrontIdle
    /\ tree \in Trees
    /\ nworkers = 0
    /\ gstate = "unbuilt"
    /\ ops = <<>>
    /\ chans = <<>>
    /\ task = <<>>
    /\ mode = "none"
    /\ pos = 0
    /\ ret = "none"
    /\ calls = <<>>
    /\ ncompute = <<>>

\* let mut g = ExecutionGraph::build_execution_graph(&ast)
Build ==
    /\ gstate = "unbuilt"
    /\ LET b == BuildExecutionGraph(tree, <<>>) IN
       IF b.st = "ok"
       THEN /\ gstate' = "built"
            /\ ops' = b.ops
            /\ chans' = [c \in ChansOf(b.ops) |-> EmptyChan(0)]
            /\ task' = [i \in 1..Len(b.ops) |-> IdleTask]
            /\ ncompute' = [i \in 1..Len(b.ops) |-> 0]
       ELSE /\ gstate' = IF b.st = "panic" THEN "build_panic" ELSE "build_err"
            /\ UNCHANGED <<ops, chans, task, ncompute>>
    /\ UNCHANGED <<tree, mode, pos, ret, calls, nworkers, fvars>>

\* ---------------------------------------------------------------- channels
\* A channel's sender lives in the broadcasts_to list of some node of the graph
SenderAlive(g, c) == \E i \in 1..Len(g) : \E k \in 1..Len(g[i].broadcasts_to) : g[i].broadcasts_to[k] = c

\* Mutant of Send: the value is accepted but never reaches the queue
Send_Lost(ch, c, x) ==
    IF ch[c].rx
    THEN [ok |-> TRUE,  chans |-> [ch EXCEPT ![c].n = @ + 1, ![c].last = x]]
    ELSE [ok |-> FALSE, chans |-> ch]

\* Sender::send : fails when the receiver is gone, otherwise enqueues
Send(ch, c, x) ==
    IF ch[c].rx
    THEN [ok |-> TRUE,  chans |-> [ch EXCEPT ![c].q = Append(@, x), ![c].n = @ + 1, ![c].last = x]]
    ELSE [ok |-> FALSE, chans |-> ch]

\* Mutant of Broadcast: only the first registered sender is served
Broadcast_FirstOnly(ch, outs, x, msg) ==
    IF outs = <<>> THEN [ok |-> TRUE, e |-> "", chans |-> ch]
    ELSE LET s == Send(ch, Head(outs), x) IN
         IF s.ok THEN [ok |-> TRUE, e |-> "", chans |-> s.chans]
         ELSE [ok |-> FALSE, e |-> msg, chans |-> s.chans]

\* `for sender in &self.broadcasts_to { sender.send(..)? }` : stops at the first failed send
RECURSIVE Broadcast(_, _, _, _)
Broadcast(ch, outs, x, msg) ==
    IF outs = <<>> THEN [ok |-> TRUE, e |-> "", chans |-> ch]
    ELSE LET s == Send(ch, Head(outs), x) IN
         IF s.ok THEN Broadcast(s.chans, Tail(outs), x, msg)
         ELSE [ok |-> FALSE, e |-> msg, chans |-> s.chans]

\* Constant::compute
ConstantCompute(node, ch) == Broadcast(ch, node.broadcasts_to, node.item, "Failed to Send")

\* BinaryOperator::compute after both receives: apply f, then send to all subscribers
BinaryOperatorSend(node, l, r, ch) ==
    LET result == F(node.f, l, r) IN
    IF ~result.ok THEN [ok |-> FALSE, e |-> result.e, chans |-> ch]
    ELSE Broadcast(ch, node.broadcasts_to, result.val, "sending on a closed channel")

\* ---------------------------------------------------------------- external calls
ExtChans == {c \in DOMAIN chans : IsExt(c)}

\* Mutant of Subscribe: a receiver registered after a computation is handed a value at once
Subscribe_Replay ==
    /\ gstate = "built" /\ mode = "none"
    /\ Cardinality(ExtChans) < MaxSubs
    /\ LET c == ExtChan(Cardinality(ExtChans) + 1) IN
       /\ ops' = NodeSubscribe(ops, CurrentMut(ops), c)
       /\ chans' = [d \in DOMAIN chans \cup {c} |->
                      IF d # c THEN chans[d]
                      ELSE IF ncompute[CurrentMut(ops)] = 0 THEN EmptyChan(Len(calls))
                      ELSE [EmptyChan(Len(calls)) EXCEPT !.q = <<ops[CurrentMut(ops)].item>>, !.n = 1]]
    /\ UNCHANGED <<tree, gstate, task, mode, pos, ret, calls, ncompute, nworkers, fvars>>

\* ExecutionGraph::subscribe
Subscribe ==
    /\ gstate = "built" /\ mode = "none"
    /\ Cardinality(ExtChans) < MaxSubs
    /\ LET c == ExtChan(Cardinality(ExtChans) + 1) IN
       /\ ops' = NodeSubscribe(ops, CurrentMut(ops), c)
       /\ chans' = [d \in DOMAIN chans \cup {c} |-> IF d = c THEN EmptyChan(Len(calls)) ELSE chans[d]]
    /\ UNCHANGED <<tree, gstate, task, mode, pos, ret, calls, ncompute, nworkers, fvars>>

\* The caller drops a receiver it obtained from subscribe()
DropReceiver(c) ==
    /\ c \in ExtChans /\ chans[c].rx
    /\ chans' = [chans EXCEPT ![c].rx = FALSE]
    /\ UNCHANGED <<tree, gstate, ops, task, mode, pos, ret, calls, ncompute, nworkers, fvars>>

\* ExecutionGraph::initialize is entered: self.ops.iter_mut().rev()
\* (limit: how many initialisation calls the caller makes on one graph)
InitializeCall(limit) ==
    /\ gstate = "built" /\ mode = "none" /\ Len(calls) < limit
    /\ mode' = "seq"
    /\ pos' = 1
    /\ task' = [i \in 1..Len(ops) |-> IdleTask]
    /\ ret' = "none"
    /\ calls' = Append(calls, "seq")
    /\ UNCHANGED <<tree, gstate, ops, chans, ncompute, nworkers, fvars>>

\* ExecutionGraph::initialize_par_iter is entered: every node becomes a pool job.
\* The global pool is created, with some number of workers, on first use.
InitializeParIterCall(limit) ==
    /\ gstate = "built" /\ mode = "none" /\ Len(calls) < limit
    /\ mode' = "par"
    /\ pos' = 0
    /\ task' = [i \in 1..Len(ops) |-> IdleTask]
    /\ ret' = "none"
    /\ calls' = Append(calls, "par")
    /\ IF nworkers = 0 THEN nworkers' \in 1..MaxWorkers ELSE UNCHANGED nworkers
    /\ UNCHANGED <<tree, gstate, ops, chans, ncompute, fvars>>

\* ---------------------------------------------------------------- compute()
\* Mutant of SeqIter: the list is walked front to back (the .rev() is lost)
SeqIter_Forward(g) == [k \in 1..Len(g) |-> k]

\* self.ops.iter_mut().rev() : the indices of ops in the order they are visited
SeqIter(g) == [k \in 1..Len(g) |-> Len(g) + 1 - k]

Running(i) == task[i].pc \in {"recv_lhs", "recv_rhs"}
Busy == Cardinality({i \in 1..Len(ops) : Running(i)})

\* compute() of node i returned res: `c.compute()?` in initialize,
\* the map/partition_map of initialize_par_iter
Finish(i, ok, e, t) ==
    /\ task' = [t EXCEPT ![i].pc = IF ok THEN "ok" ELSE "err", ![i].e = e]
    /\ IF mode = "seq"
       THEN IF ok THEN /\ pos' = pos + 1
                       /\ UNCHANGED <<mode, ret>>
            ELSE /\ mode' = "none"
                 /\ ret' = e
                 /\ UNCHANGED pos
       ELSE UNCHANGED <<mode, ret, pos>>

\* Mutant of CanStart: a job is started although every worker is occupied
CanStart_NoLimit(i) ==
    /\ task[i].pc = "idle"
    /\ \/ mode = "seq" /\ pos <= Len(ops) /\ i = SeqIter(ops)[pos]
       \/ mode = "par"

\* Which node may enter compute() now
\* sequential: the iterator's current element; parallel: any job not yet taken, given a free worker
CanStart(i) ==
    /\ task[i].pc = "idle"
    /\ \/ mode = "seq" /\ pos <= Len(ops) /\ i = SeqIter(ops)[pos]
       \/ mode = "par" /\ Busy < nworkers

\* OperatorEnum::compute is called on node i
Start(i) ==
    /\ CanStart(i)
    /\ ncompute' = [ncompute EXCEPT ![i] = @ + 1]
    /\ IF ops[i].kind = "Constant"
       THEN LET res == ConstantCompute(ops[i], chans) IN
            /\ chans' = res.chans
            /\ Finish(i, res.ok, res.e, task)
       ELSE /\ task' = [task EXCEPT ![i].pc = "recv_lhs"]
            /\ UNCHANGED <<chans, mode, ret, pos>>
    /\ UNCHANGED <<tree, gstate, ops, calls, nworkers, fvars>>

\* Mutant of RecvLhs: the node forwards to its subscribers as soon as lhs has arrived
RecvLhs_SendEarly(i) ==
    /\ task[i].pc = "recv_lhs"
    /\ LET c == ops[i].lhs IN
       /\ chans[c].q # <<>>
       /\ chans' = Broadcast([chans EXCEPT ![c].q = Tail(@)], ops[i].broadcasts_to,
                             Head(chans[c].q), "").chans
       /\ task' = [task EXCEPT ![i].pc = "recv_rhs", ![i].l = Head(chans[c].q)]
       /\ UNCHANGED <<mode, ret, pos>>
    /\ UNCHANGED <<tree, gstate, ops, calls, ncompute, nworkers, fvars>>

\* let lhs = self.lhs.recv().map_err(..)?
RecvLhs(i) ==
    /\ task[i].pc = "recv_lhs"
    /\ LET c == ops[i].lhs IN
       IF chans[c].q # <<>>
       THEN /\ chans' = [chans EXCEPT ![c].q = Tail(@)]
            /\ task' = [task EXCEPT ![i].pc = "recv_rhs", ![i].l = Head(chans[c].q)]
            /\ UNCHANGED <<mode, ret, pos>>
       ELSE /\ ~SenderAlive(ops, c)
            /\ UNCHANGED chans
            /\ Finish(i, FALSE, "receiving on a closed channel", task)
    /\ UNCHANGED <<tree, gstate, ops, calls, ncompute, nworkers, fvars>>

\* Mutant of RecvRhs: the two received values reach f in the wrong order
RecvRhs_Swapped(i) ==
    /\ task[i].pc = "recv_rhs"
    /\ LET c == ops[i].rhs IN
       /\ chans[c].q # <<>>
       /\ LET x   == Head(chans[c].q)
              res == BinaryOperatorSend(ops[i], x, task[i].l, [chans EXCEPT ![c].q = Tail(@)])
          IN /\ chans' = res.chans
             /\ Finish(i, res.ok, res.e, [task EXCEPT ![i].r = x])
    /\ UNCHANGED <<tree, gstate, ops, calls, ncompute, nworkers, fvars>>

\* let rhs = self.rhs.recv().map_err(..)?; then apply f and send
RecvRhs(i) ==
    /\ task[i].pc = "recv_rhs"
    /\ LET c == ops[i].rhs IN
       IF chans[c].q # <<>>
       THEN LET x   == Head(chans[c].q)
                res == BinaryOperatorSend(ops[i], task[i].l, x, [chans EXCEPT ![c].q = Tail(@)])
            IN /\ chans' = res.chans
               /\ Finish(i, res.ok, res.e, [task EXCEPT ![i].r = x])
       ELSE /\ ~SenderAlive(ops, c)
            /\ UNCHANGED chans
            /\ Finish(i, FALSE, "receiving on a closed channel", task)
    /\ UNCHANGED <<tree, gstate, ops, calls, ncompute, nworkers, fvars>>

\* initialize: the iterator is exhausted -> Ok(())
InitializeReturn ==
    /\ mode = "seq" /\ pos > Len(ops)
    /\ mode' = "none"
    /\ ret' = "Ok"
    /\ UNCHANGED <<tree, gstate, ops, chans, task, pos, calls, ncompute, nworkers, fvars>>

\* initialize_par_iter: all jobs finished; fails.is_empty() decides the result
InitializeParIterReturn ==
    /\ mode = "par"
    /\ \A i \in 1..Len(ops) : task[i].pc \in {"ok", "err"}
    /\ mode' = "none"
    /\ ret' = IF \E i \in 1..Len(ops) : task[i].pc = "err" THEN "Failed initialization" ELSE "Ok"
    /\ UNCHANGED <<tree, gstate, ops, chans, task, pos, calls, ncompute, nworkers, fvars>>

\* ExecutionGraph::initialize run to its end as one function of the graph and its
\* channels: the nodes of `order` from position k on, each compute() in turn.
\* "blocked" stands for a recv() that would never return.
RECURSIVE InitializeFrom(_, _, _, _)
InitializeFrom(g, ch, order, k) ==
    IF k > Len(order) THEN [ret |-> "Ok", chans |-> ch]
    ELSE LET node == g[order[k]] IN
         IF node.kind = "Constant"
         THEN LET res == ConstantCompute(node, ch) IN
              IF res.ok THEN InitializeFrom(g, res.chans, order, k + 1)
              ELSE [ret |-> res.e, chans |-> res.chans]
         ELSE IF ch[node.lhs].q = <<>> THEN [ret |-> "blocked", chans |-> ch]
         ELSE LET l   == Head(ch[node.lhs].q)
                  ch1 == [ch EXCEPT ![node.lhs].q = Tail(@)]
              IN IF ch1[node.rhs].q = <<>> THEN [ret |-> "blocked", chans |-> ch1]
                 ELSE LET r   == Head(ch1[node.rhs].q)
                          ch2 == [ch1 EXCEPT ![node.rhs].q = Tail(@)]
                          res == BinaryOperatorSend(node, l, r, ch2)
                      IN IF res.ok THEN InitializeFrom(g, res.chans, order, k + 1)
                         ELSE [ret |-> res.e, chans |-> res.chans]

\* one step of some compute(), or the end of the running call
ComputeStep ==
    \/ \E i \in 1..Len(ops) : Start(i)
    \/ \E i \in 1..Len(ops) : RecvLhs(i)
    \/ \E i \in 1..Len(ops) : RecvRhs(i)
    \/ InitializeReturn
    \/ InitializeParIterReturn

\* A caller that may initialise the same graph repeatedly
Next ==
    \/ Build
    \/ Subscribe
    \/ \E c \in DOMAIN chans : DropReceiver(c)
    \/ InitializeCall(MaxInits)
    \/ InitializeParIterCall(MaxInits)
    \/ \E i \in 1..Len(ops) : Start(i)
    \/ \E i \in 1..Len(ops) : RecvLhs(i)
    \/ \E i \in 1..Len(ops) : RecvRhs(i)
    \/ InitializeReturn
    \/ InitializeParIterReturn

Spec == Init /\ [][Next]_vars

\* A caller that initialises a graph once (tests, evaluate, demo)
NextOnce ==
    \/ Build
    \/ Subscribe
    \/ \E c \in DOMAIN chans : DropReceiver(c)
    \/ InitializeCall(1)
    \/ InitializeParIterCall(1)
    \/ \E i \in 1..Len(ops) : Start(i)
    \/ \E i \in 1..Len(ops) : RecvLhs(i)
    \/ \E i \in 1..Len(ops) : RecvRhs(i)
    \/ InitializeReturn
    \/ InitializeParIterReturn

SpecOnce == Init /\ [][NextOnce]_vars

\* ---------------------------------------------------------------- operator closures on their own
\* the graph is not in use
GraphIdle ==
    /\ tree = ParseNode(TermTok("IntV", 0), <<>>)
    /\ nworkers = 0 /\ gstate = "unbuilt" /\ ops = <<>> /\ chans = <<>> /\ task = <<>>
    /\ mode = "none" /\ pos = 0 /\ ret = "none" /\ calls = <<>> /\ ncompute = <<>>

\* operand vectors: every dtype, every length up to MaxVec
IntElems   == {2, 5}
FloatElems == {F64(5, 1), F64(2, 0)}
BoolElems  == {0, 1}
VecsOver(S) == UNION {[1..n -> S] : n \in 0..MaxVec}
Operands == {Var("Int", v) : v \in VecsOver(IntElems)}
            \cup {Var("Float", v) : v \in VecsOver(FloatElems)}
            \cup {Var("Bool", v) : v \in VecsOver(BoolElems)}

InitOp ==
    /\ GraphIdle
    /\ opcall \in {<<c>> : c \in [tok : BinToks, x : Operands, y : Operands]}
    /\ opres = <<>>
    /\ program = <<>> /\ lineres = <<>> /\ mlres = <<>>
    /\ toks = <<>> /\ parseres = <<>> /\ ev = EvIdle /\ df = DfIdle

\* let result = (*self.f)(lhs, rhs)
ApplyF ==
    /\ opcall # <<>> /\ opres = <<>>
    /\ opres' = <<F(OpFn(opcall[1].tok), opcall[1].x, opcall[1].y)>>
    /\ UNCHANGED <<gvars, opcall, program, lineres, mlres, toks, parseres, ev, df>>

NextOp == ApplyF

SpecOp == InitOp /\ [][NextOp]_vars

\* ---------------------------------------------------------------- building from any ParseNode
\* every Term kind and every token a ParseNode is able to carry
AllTerms == {TermTok("IntV", 3), TermTok("BoolV", 1), TermTok("FloatV", F64(5, 1)), TermTok("Var", <<"a">>)}
UnimplementedBinToks == {OpTok(n) : n \in {"Lt", "Le", "Gt", "Ge", "Eq", "Ne", "And", "Or"}}
OtherToks == {OpTok(n) : n \in {"Sin", "Cos", "Not", "LeftParen", "RightParen"}}
AllOpToks == BinToks \cup UnimplementedBinToks \cup OtherToks

\* ParseNode values of n nodes below the root: one token of each sort
\* (implemented, unimplemented, unary) over zero, one or two children
InnerToks == {OpTok("Plus"), OpTok("Neg"), OpTok("Lt"), OpTok("Sin")}
RECURSIVE InnerTreesOfSize(_)
InnerTreesOfSize(n) ==
    IF n < 1 THEN {}
    ELSE IF n = 1 THEN {ParseNode(l, <<>>) : l \in AllTerms \cup {OpTok("Plus"), OpTok("LeftParen")}}
    ELSE {ParseNode(o, <<a>>) : o \in InnerToks, a \in InnerTreesOfSize(n - 1)}
         \cup UNION {
           {ParseNode(o, <<a, b>>) : o \in InnerToks, a \in InnerTreesOfSize(k), b \in InnerTreesOfSize(n - 1 - k)}
           : k \in 1..(n - 2)}

\* the ParseNode handed to build_execution_graph: any token at the root
AnyTreesOfSize(n) ==
    IF n = 1 THEN {ParseNode(l, <<>>) : l \in AllTerms \cup AllOpToks}
    ELSE {ParseNode(o, <<a>>) : o \in AllOpToks, a \in InnerTreesOfSize(n - 1)}
         \cup UNION {
           {ParseNode(o, <<a, b>>) : o \in AllOpToks, a \in InnerTreesOfSize(k), b \in InnerTreesOfSize(n - 1 - k)}
           : k \in 1..(n - 2)}

AnyTrees == UNION {AnyTreesOfSize(n) : n \in 1..MaxBuildNodes}

InitBuild ==
    /\ FrontIdle
    /\ tree \in AnyTrees
    /\ nworkers = 0 /\ gstate = "unbuilt" /\ ops = <<>> /\ chans = <<>> /\ task = <<>>
    /\ mode = "none" /\ pos = 0 /\ ret = "none" /\ calls = <<>> /\ ncompute = <<>>

NextBuild ==
    \/ Build
    \/ Subscribe

SpecBuild == InitBuild /\ [][NextBuild]_vars

\* ---------------------------------------------------------------- lexer
\* Text is a sequence of one-character strings.
Digits == {"0", "1", "2", "3", "4", "5", "6", "7", "8", "9"}
Lower  == {"a", "b", "c", "d", "e", "f", "g", "h", "i", "j", "k", "l", "m",
           "n", "o", "p", "q", "r", "s", "t", "u", "v", "w", "x", "y", "z"}

DigitVal(c) ==
    CASE c = "0" -> 0 [] c = "1" -> 1 [] c = "2" -> 2 [] c = "3" -> 3 [] c = "4" -> 4
      [] c = "5" -> 5 [] c = "6" -> 6 [] c = "7" -> 7 [] c = "8" -> 8 [] c = "9" -> 9

\* LexResult: Ok(token_stream) | Err(LexError { substr })
\* (a substr is a sequence of text pieces; the backquotes of the messages are written ')
LexOk(ts)    == [ok |-> TRUE, toks |-> ts]
LexErr(frag) == [ok |-> FALSE, substr |-> frag]

\* PeekIter::consume_if_matches : all of item is ahead -> consumed, else nothing is
ConsumeIfMatches(cs, item) ==
    IF Len(cs) >= Len(item) /\ SubSeq(cs, 1, Len(item)) = item
    THEN [m |-> TRUE,  rest |-> SubSeq(cs, Len(item) + 1, Len(cs))]
    ELSE [m |-> FALSE, rest |-> cs]

\* Mutant of ScanNumber: a further '.' is skipped instead of refused
RECURSIVE ScanNumber_ManyDots(_, _, _)
ScanNumber_ManyDots(cs, str_rep, numeric_float) ==
    IF cs # <<>> /\ Head(cs) = "."
    THEN IF numeric_float THEN ScanNumber_ManyDots(Tail(cs), str_rep, TRUE)
         ELSE ScanNumber_ManyDots(Tail(cs), Append(str_rep, "."), TRUE)
    ELSE IF cs # <<>> /\ Head(cs) \in Digits
         THEN ScanNumber_ManyDots(Tail(cs), Append(str_rep, Head(cs)), numeric_float)
         ELSE [ok |-> TRUE, str_rep |-> str_rep, numeric_float |-> numeric_float, rest |-> cs]

\* the loop of the '0'..='9' branch: digits and at most one '.'
RECURSIVE ScanNumber(_, _, _)
ScanNumber(cs, str_rep, numeric_float) ==
    IF cs # <<>> /\ Head(cs) = "."
    THEN IF numeric_float THEN [ok |-> FALSE, str_rep |-> str_rep, numeric_float |-> TRUE, rest |-> cs]
         ELSE ScanNumber(Tail(cs), Append(str_rep, "."), TRUE)
    ELSE IF cs # <<>> /\ Head(cs) \in Digits
         THEN ScanNumber(Tail(cs), Append(str_rep, Head(cs)), numeric_float)
         ELSE [ok |-> TRUE, str_rep |-> str_rep, numeric_float |-> numeric_float, rest |-> cs]

\* str::parse::<i64> on a run of digits (the runs of the model stay far below i64::MAX)
RECURSIVE ParseI64(_)
ParseI64(ds) == IF ds = <<>> THEN 0 ELSE 10 * ParseI64(SubSeq(ds, 1, Len(ds) - 1)) + DigitVal(ds[Len(ds)])

\* Mutant of ParseF64: the digits after the '.' are read as part of the integer
ParseF64_NoPoint(str_rep) ==
    LET dot  == CHOOSE i \in 1..Len(str_rep) : str_rep[i] = "."
        int  == SubSeq(str_rep, 1, dot - 1)
        frac == SubSeq(str_rep, dot + 1, Len(str_rep))
    IN F64(ParseI64(int \o frac), 0)

\* str::parse::<f64> on digits '.' digits
ParseF64(str_rep) ==
    LET dot  == CHOOSE i \in 1..Len(str_rep) : str_rep[i] = "."
        int  == SubSeq(str_rep, 1, dot - 1)
        frac == SubSeq(str_rep, dot + 1, Len(str_rep))
    IN F64(ParseI64(int \o frac), Len(frac))

\* the loop of the ':' branch: the run of lowercase letters
RECURSIVE ScanVar(_, _)
ScanVar(cs, var_name) ==
    IF cs # <<>> /\ Head(cs) \in Lower
    THEN ScanVar(Tail(cs), Append(var_name, Head(cs)))
    ELSE [var_name |-> var_name, rest |-> cs]

\* a keyword branch: the first letter is consumed, `rest` must follow
Keyword(it, rest, tok, name) ==
    LET m == ConsumeIfMatches(it, rest) IN
    IF m.m THEN [ok |-> TRUE, tok |-> tok, rest |-> m.rest]
    ELSE [ok |-> FALSE, substr |-> <<"Failed to parse '", name, "'">>]

\* a two-character operator: `second` ahead -> both, else `single` (or the error)
\* Mutant of TwoChar: the second character is peeked but not consumed
TwoChar_NoAdvance(it, second, both, single, name) ==
    IF it # <<>> /\ Head(it) = second THEN [ok |-> TRUE, tok |-> OpTok(both), rest |-> it]
    ELSE IF single # "" THEN [ok |-> TRUE, tok |-> OpTok(single), rest |-> it]
    ELSE [ok |-> FALSE, substr |-> <<"Failed to parse '", name, "'">>]

TwoChar(it, second, both, single, name) ==
    IF it # <<>> /\ Head(it) = second THEN [ok |-> TRUE, tok |-> OpTok(both), rest |-> Tail(it)]
    ELSE IF single # "" THEN [ok |-> TRUE, tok |-> OpTok(single), rest |-> it]
    ELSE [ok |-> FALSE, substr |-> <<"Failed to parse '", name, "'">>]

\* lex: the `while let Some(c) = it.next()` loop from the characters cs on,
\* token_stream being what has been pushed so far
RECURSIVE LexFrom(_, _)
LexFrom(cs, token_stream) ==
    IF cs = <<>> THEN LexOk(token_stream)
    ELSE LET c  == Head(cs)
             it == Tail(cs)
             one(name) == [ok |-> TRUE, tok |-> OpTok(name), rest |-> it]
             r == CASE c = "(" -> one("LeftParen")
                    [] c = ")" -> one("RightParen")
                    [] c = "+" -> one("Plus")
                    [] c = "-" -> one("Neg")
                    [] c = "*" -> one("Mul")
                    [] c = "<" -> TwoChar(it, "=", "Le", "Lt", "")
                    [] c = ">" -> TwoChar(it, "=", "Ge", "Gt", "")
                    [] c = "&" -> TwoChar(it, "&", "And", "", "and")
                    [] c = "|" -> TwoChar(it, "|", "Or", "", "or")
                    [] c = "!" -> TwoChar(it, "=", "Ne", "Not", "")
                    [] c = "=" -> TwoChar(it, "=", "Eq", "", "eq")
                    [] c \in Digits ->
                         LET n == ScanNumber(it, <<c>>, FALSE) IN
                         IF ~n.ok
                         THEN [ok |-> FALSE, substr |-> <<"Failed; cannot have multiple '.' in numeric literal">>]
                         ELSE IF n.numeric_float
                              THEN [ok |-> TRUE, tok |-> TermTok("FloatV", ParseF64(n.str_rep)), rest |-> n.rest]
                              ELSE [ok |-> TRUE, tok |-> TermTok("IntV", ParseI64(n.str_rep)), rest |-> n.rest]
                    [] c = "t" -> Keyword(it, <<"r", "u", "e">>, TermTok("BoolV", 1), "true")
                    [] c = "f" -> Keyword(it, <<"a", "l", "s", "e">>, TermTok("BoolV", 0), "false")
                    [] c = "s" -> Keyword(it, <<"i", "n">>, OpTok("Sin"), "sin")
                    [] c = "c" -> Keyword(it, <<"c", "o", "s">>, OpTok("Cos"), "cos")
                    [] c = ":" -> LET v == ScanVar(it, <<>>) IN
                                  [ok |-> TRUE, tok |-> TermTok("Var", v.var_name), rest |-> v.rest]
                    [] c = " " -> [ok |-> TRUE, tok |-> "continue", rest |-> it]
                    [] OTHER   -> [ok |-> FALSE, substr |-> <<"Unexpected character: ", c>>]
         IN IF ~r.ok THEN LexErr(r.substr)
            ELSE IF c = " " THEN LexFrom(r.rest, token_stream)
            ELSE LexFrom(r.rest, Append(token_stream, r.tok))

\* pub fn lex
Lex(cs) == LexFrom(cs, <<>>)


\* impl Display for LexError: the text an error shows
LexErrorDisplay(e) == <<"LexError">>

\* str::par_lines : split at '\n', a final empty piece dropped, a trailing '\r' stripped
RECURSIVE SplitTerminator(_, _)
SplitTerminator(cs, cur) ==
    IF cs = <<>> THEN (IF cur = <<>> THEN <<>> ELSE <<cur>>)
    ELSE IF Head(cs) = "\n" THEN <<cur>> \o SplitTerminator(Tail(cs), <<>>)
    ELSE SplitTerminator(Tail(cs), Append(cur, Head(cs)))

StripCR(l) == IF l # <<>> /\ l[Len(l)] = "\r" THEN SubSeq(l, 1, Len(l) - 1) ELSE l

ParLines(text) ==
    LET ls == SplitTerminator(text, <<>>) IN [i \in 1..Len(ls) |-> StripCR(ls[i])]

\* itertools join("\n")
RECURSIVE JoinNL(_)
JoinNL(frags) ==
    IF frags = <<>> THEN <<>>
    ELSE IF Len(frags) = 1 THEN frags[1]
    ELSE frags[1] \o <<"\n">> \o JoinNL(Tail(frags))

\* the line whose lex() finished k-th
LineDone(i) == \E k \in 1..Len(lineres) : lineres[k].line = i
ResultOf(i) == lineres[CHOOSE k \in 1..Len(lineres) : lineres[k].line = i].res

\* what the parallel iterator hands to partition: the per-line results in line order
Collected == [i \in 1..Len(lineres) |-> ResultOf(i)]

\* one job of `program.par_lines().map(|s| lex(s.chars()))` finishes
LexLine(i) ==
    /\ mlres = <<>> /\ ~LineDone(i)
    /\ lineres' = Append(lineres, [line |-> i, res |-> Lex(ParLines(program)[i])])
    /\ UNCHANGED <<gvars, opcall, opres, program, mlres, toks, parseres, ev, df>>

\* lex_multiline: partition(is_ok), then Ok(all token streams) or the joined LexError
LexMultilineReturn ==
    /\ mlres = <<>>
    /\ \A i \in 1..Len(ParLines(program)) : LineDone(i)
    /\ LET successes == SelectSeq(Collected, LAMBDA r : r.ok)
           failures  == SelectSeq(Collected, LAMBDA r : ~r.ok)
       IN mlres' = IF failures = <<>>
                   THEN <<[ok |-> TRUE, toks |-> [i \in 1..Len(successes) |-> successes[i].toks]]>>
                   ELSE <<LexErr(JoinNL([i \in 1..Len(failures) |-> failures[i].substr]))>>
    /\ UNCHANGED <<gvars, opcall, opres, program, lineres, toks, parseres, ev, df>>

\* the texts lexed: every line put together from at most MaxPieces of these pieces,
\* and the programs of up to MaxLines short lines
Pieces == {<<"1">>, <<"0">>, <<"1", ".", "5">>, <<".">>, <<"-">>, <<"<">>, <<"=">>, <<" ">>, <<"\t">>,
           <<"F">>, <<":">>, <<"a">>, <<"t", "r", "u", "e">>, <<"f", "a", "l", "s", "e">>,
           <<"s", "i", "n">>, <<"c", "o", "s">>, <<"c">>, <<"t">>}
RECURSIVE LinesOf(_)
LinesOf(n) == IF n = 0 THEN {<<>>} ELSE LinesOf(n - 1) \cup {l \o p : l \in LinesOf(n - 1), p \in Pieces}

ShortLines == {<<>>, <<"1">>, <<"1", "F">>, <<"t">>, <<":", "a">>}
RECURSIVE ProgramsOf(_)
ProgramsOf(n) ==
    IF n = 1 THEN ShortLines
    ELSE ProgramsOf(n - 1) \cup {p \o <<"\n">> \o l : p \in ProgramsOf(n - 1), l \in ShortLines}

\* the lines of up to MaxOpChars of the characters of the comparison and logical operators
OpChars == {"<", ">", "!", "=", "&", "|", "1"}
OpLines == UNION {[1..n -> OpChars] : n \in 1..MaxOpChars}

InitLex ==
    /\ GraphIdle
    /\ opcall = <<>> /\ opres = <<>>
    /\ program \in LinesOf(MaxPieces) \cup ProgramsOf(MaxLines) \cup OpLines
    /\ lineres = <<>> /\ mlres = <<>>
    /\ toks = <<>> /\ parseres = <<>> /\ ev = EvIdle /\ df = DfIdle

NextLex ==
    \/ \E i \in 1..Len(ParLines(program)) : LexLine(i)
    \/ LexMultilineReturn

SpecLex == InitLex /\ [][NextLex]_vars

\* ---------------------------------------------------------------- parser
\* ParseResult<T>
ParseError == [ok |-> FALSE]

InfixToks == {"Neg", "Plus", "Mul", "Lt", "Le", "Gt", "Ge", "Eq", "And", "Or", "Ne"}
\* Mutant of PrefixToks: a leading Plus is not taken
PrefixToks_NoPlus == {"Neg", "Sin", "Cos"}

PrefixToks == {"Neg", "Plus", "Sin", "Cos"}

\* parse_term
ParseTerm(term) == ParseNode(term, <<>>)

\* Mutant of BinaryNode: the operands change places
BinaryNode_Swapped(term, rhs, binop_term) == ParseNode(binop_term, <<rhs, term>>)

\* ParseNode { dependencies: vec![term, rhs], token: binop_term.clone() }
BinaryNode(term, rhs, binop_term) == ParseNode(binop_term, <<term, rhs>>)

\* Mutant of UnaryNode: the operand is lost
UnaryNode_NoOperand(subexpr, node) == ParseNode(node, <<>>)

\* ParseNode { dependencies: vec![subexpr], token: node.clone() }
UnaryNode(subexpr, node) == ParseNode(node, <<subexpr>>)

\* parse_expr : Ok((node, remaining tokens)) or ParseError
RECURSIVE ParseExpr(_)
ParseExpr(tokens) ==
    IF tokens = <<>> THEN ParseError
    ELSE LET node            == Head(tokens)
             remaining_slice == Tail(tokens)
         IN CASE node.t = "LeftParen" ->
                   LET sub == ParseExpr(remaining_slice) IN
                   IF ~sub.ok THEN ParseError
                   ELSE IF sub.rest = <<>> THEN ParseError
                   ELSE IF Head(sub.rest).t = "RightParen"
                        THEN [ok |-> TRUE, node |-> sub.node, rest |-> Tail(sub.rest)]
                        ELSE ParseError
              [] node.t = "Term" ->
                   LET term == ParseTerm(node) IN
                   IF remaining_slice = <<>> THEN [ok |-> TRUE, node |-> term, rest |-> remaining_slice]
                   ELSE LET binop_term == Head(remaining_slice)
                            rest       == Tail(remaining_slice)
                        IN IF binop_term.t = "RightParen"
                           THEN [ok |-> TRUE, node |-> term, rest |-> remaining_slice]
                           ELSE IF binop_term.t \in InfixToks
                           THEN LET rhs == ParseExpr(rest) IN
                                IF ~rhs.ok THEN ParseError
                                ELSE [ok |-> TRUE, node |-> BinaryNode(term, rhs.node, binop_term), rest |-> rhs.rest]
                           ELSE ParseError
              [] node.t \in PrefixToks ->
                   LET sub == ParseExpr(remaining_slice) IN
                   IF ~sub.ok THEN ParseError
                   ELSE [ok |-> TRUE, node |-> UnaryNode(sub.node, node), rest |-> sub.rest]
              [] OTHER -> ParseError

\* Mutant of Parse: leftover tokens are ignored
Parse_IgnoreRest(tokens) ==
    LET r == ParseExpr(tokens) IN
    IF ~r.ok THEN ParseError ELSE [ok |-> TRUE, node |-> r.node]

\* pub fn parse
Parse(tokens) ==
    LET r == ParseExpr(tokens) IN
    IF ~r.ok THEN ParseError
    ELSE IF r.rest = <<>> THEN [ok |-> TRUE, node |-> r.node] ELSE ParseError

\* token sequences: every sequence of up to MaxToks of these tokens, every
\* chain term (op term)* of up to MaxChain terms, and the tokens of "10 - 3 - 2"
ParseToks == {TermTok("IntV", 1), TermTok("IntV", 2), OpTok("Neg"), OpTok("Plus"), OpTok("Mul"),
              OpTok("Sin"), OpTok("Not"), OpTok("LeftParen"), OpTok("RightParen")}
ChainTerms == {TermTok("IntV", 1), TermTok("IntV", 2)}
ChainOps   == {OpTok("Neg"), OpTok("Plus"), OpTok("Mul"), OpTok("Lt")}
RECURSIVE ChainsOf(_)
ChainsOf(n) ==
    IF n = 1 THEN {<<t>> : t \in ChainTerms}
    ELSE ChainsOf(n - 1) \cup {<<t, o>> \o c : t \in ChainTerms, o \in ChainOps, c \in ChainsOf(n - 1)}
Line1032 == <<"1", "0", " ", "-", " ", "3", " ", "-", " ", "2">>

InitParse ==
    /\ GraphIdle
    /\ opcall = <<>> /\ opres = <<>>
    /\ program = <<>> /\ lineres = <<>> /\ mlres = <<>>
    /\ toks \in UNION {[1..n -> ParseToks] : n \in 0..MaxToks} \cup ChainsOf(MaxChain) \cup {Lex(Line1032).toks}
    /\ parseres = <<>> /\ ev = EvIdle /\ df = DfIdle

\* parser::parse(tok_stream)
ParseCall ==
    /\ parseres = <<>>
    /\ parseres' = <<Parse(toks)>>
    /\ UNCHANGED <<gvars, opcall, opres, program, lineres, mlres, toks, ev, df>>

NextParse == ParseCall

SpecParse == InitParse /\ [][NextParse]_vars

\* ---------------------------------------------------------------- evaluate
\* ev.pc: "idle" | "lex" (in lex_multiline) | "parsed" | "built" (between two graphs)
\*        | "subscribed" (a graph is being initialised) | "returned" | "panic"
\* ev.results holds, per graph run, the Var whose to_string() is pushed

\* the lines of the programs evaluated: results 1 and 6, a line that does not
\* parse, the empty line, a line that does not lex, a variable, a unary minus,
\* a Bool operand, and a Bool operand below the root
EvalLines == {<<"1">>, <<"2", "*", "3">>, <<")">>, <<>>, <<"1", "F">>, <<":", "a">>, <<"-", "1">>,
              <<"t", "r", "u", "e", "+", "1">>, <<"1", "+", "t", "r", "u", "e", "+", "1">>}
RECURSIVE EvalPrograms(_)
EvalPrograms(n) ==
    IF n = 1 THEN EvalLines
    ELSE EvalPrograms(n - 1) \cup {p \o <<"\n">> \o l : p \in EvalPrograms(n - 1), l \in EvalLines}

InitEval ==
    /\ GraphIdle
    /\ opcall = <<>> /\ opres = <<>>
    /\ program \in EvalPrograms(MaxEvalLines)
    /\ lineres = <<>> /\ mlres = <<>>
    /\ toks = <<>> /\ parseres = <<>>
    /\ ev = [EvIdle EXCEPT !.pc = "lex"]
    /\ df = DfIdle

\* let tokens = lexer::lex_multiline(&program)?  : the error is returned
EvalLexError ==
    /\ ev.pc = "lex" /\ mlres # <<>> /\ ~mlres[1].ok
    /\ ev' = [ev EXCEPT !.pc = "returned", !.out = <<[ok |-> FALSE, e |-> LexErrorDisplay(mlres[1])]>>]
    /\ UNCHANGED <<gvars, opcall, opres, program, lineres, mlres, toks, parseres, df>>

\* tokens.par_iter().map(parse).partition_map(..): the trees of the lines that
\* parse, in line order; the failures are only printed
EvalParse ==
    /\ ev.pc = "lex" /\ mlres # <<>> /\ mlres[1].ok
    /\ LET parsed == [i \in 1..Len(mlres[1].toks) |-> Parse(mlres[1].toks[i])]
           oks    == SelectSeq(parsed, LAMBDA r : r.ok)
       IN ev' = [ev EXCEPT !.pc = "parsed", !.asts = [i \in 1..Len(oks) |-> oks[i].node]]
    /\ UNCHANGED <<gvars, opcall, opres, program, lineres, mlres, toks, parseres, df>>

\* asts.iter().map(build_execution_graph).map(|g| g.unwrap()).collect()
EvalBuild ==
    /\ ev.pc = "parsed"
    /\ LET built == [i \in 1..Len(ev.asts) |-> BuildExecutionGraph(ev.asts[i], <<>>)] IN
       IF \A i \in 1..Len(built) : built[i].st = "ok"
       THEN ev' = [ev EXCEPT !.pc = "built", !.gs = [i \in 1..Len(built) |-> built[i].ops], !.k = 1]
       ELSE ev' = [ev EXCEPT !.pc = "panic"]
    /\ UNCHANGED <<gvars, opcall, opres, program, lineres, mlres, toks, parseres, df>>

\* for g in &mut gs { let handle = g.subscribe().unwrap();  : the next graph comes into use
EvalSubscribe ==
    /\ ev.pc = "built" /\ ev.k <= Len(ev.gs)
    /\ LET g == NodeSubscribe(ev.gs[ev.k], CurrentMut(ev.gs[ev.k]), ExtChan(1)) IN
       /\ ops' = g
       /\ chans' = [c \in ChansOf(g) |-> EmptyChan(0)]
       /\ task' = [i \in 1..Len(g) |-> IdleTask]
       /\ ncompute' = [i \in 1..Len(g) |-> 0]
    /\ tree' = ev.asts[ev.k]
    /\ gstate' = "built"
    /\ calls' = <<>>
    /\ ret' = "none"
    /\ ev' = [ev EXCEPT !.pc = "subscribed"]
    /\ UNCHANGED <<mode, pos, nworkers, opcall, opres, program, lineres, mlres, toks, parseres, df>>

\* g.initialize_par_iter().unwrap(); let result = handle.recv().unwrap(); results.push(..)
EvalRecv ==
    /\ ev.pc = "subscribed" /\ mode = "none" /\ ret # "none"
    /\ IF ret = "Ok"
       THEN /\ chans[ExtChan(1)].q # <<>>
            /\ ev' = [ev EXCEPT !.pc = "built", !.k = @ + 1,
                                !.results = Append(@, Head(chans[ExtChan(1)].q))]
       ELSE ev' = [ev EXCEPT !.pc = "panic"]
    /\ gstate' = "unbuilt"
    /\ ops' = <<>> /\ chans' = <<>> /\ task' = <<>> /\ ncompute' = <<>>
    /\ UNCHANGED <<tree, mode, pos, ret, calls, nworkers, opcall, opres, program, lineres, mlres, toks, parseres, df>>

\* Ok(results)
EvalReturn ==
    /\ ev.pc = "built" /\ ev.k > Len(ev.gs)
    /\ ev' = [ev EXCEPT !.pc = "returned", !.out = <<[ok |-> TRUE, results |-> ev.results]>>]
    /\ UNCHANGED <<gvars, opcall, opres, program, lineres, mlres, toks, parseres, df>>

NextEval ==
    \/ \E i \in 1..Len(ParLines(program)) : LexLine(i)
    \/ LexMultilineReturn
    \/ EvalLexError
    \/ EvalParse
    \/ EvalBuild
    \/ EvalSubscribe
    \/ InitializeParIterCall(1)
    \/ \E i \in 1..Len(ops) : Start(i)
    \/ \E i \in 1..Len(ops) : RecvLhs(i)
    \/ \E i \in 1..Len(ops) : RecvRhs(i)
    \/ InitializeParIterReturn
    \/ EvalRecv
    \/ EvalReturn

SpecEval == InitEval /\ [][NextEval]_vars

\* ---------------------------------------------------------------- initialize_par_iter under fair workers
\* the pool exists before the call, with up to one worker more than the tree has nodes
NodeCount(p) == Len(BuildExecutionGraph(p, <<>>).ops)
PoolSizes(p) == 1..(NodeCount(p) + 1)

InitLive ==
    /\ FrontIdle
    /\ tree \in Trees
    /\ nworkers \in PoolSizes(tree)
    /\ gstate = "unbuilt"
    /\ ops = <<>>
    /\ chans = <<>>
    /\ task = <<>>
    /\ mode = "none"
    /\ pos = 0
    /\ ret = "none"
    /\ calls = <<>>
    /\ ncompute = <<>>

NextLive ==
    \/ Build
    \/ Subscribe
    \/ InitializeParIterCall(1)
    \/ \E i \in 1..Len(ops) : Start(i)
    \/ \E i \in 1..Len(ops) : RecvLhs(i)
    \/ \E i \in 1..Len(ops) : RecvRhs(i)
    \/ InitializeParIterReturn

\* a pool worker that can take a job or go on with its compute() does so in the end
SpecLive == InitLive /\ [][NextLive]_vars /\ WF_vars(ComputeStep)

\* ---------------------------------------------------------------- DataFrame
\* df.item : HashMap<String, Series> as a function from column names to Series;
\* df.prev : the columns before the last call; df.op, df.key, df.len : the last
\* call, its key and the length of its series; df.ret : what it returned

\* the Python objects handed in as columns: lists of integers, and one object
\* that no Series can be made from
PyLists == {[kind |-> "ints", items |-> xs] : xs \in UNION {[1..n -> {1, 2}] : n \in 0..MaxRows}}
PyObjects == PyLists \cup {[kind |-> "other", items |-> <<>>]}
ColNames == {"a", "b"}
\* the column mappings: the keys in insertion order, each with its object
PyDicts ==
    {<<>>} \cup {<<[k |-> k, v |-> v]>> : k \in ColNames, v \in PyObjects}
           \cup {d \in {<<[k |-> k1, v |-> v1], [k |-> k2, v |-> v2]>> :
                            k1 \in ColNames, k2 \in ColNames, v1 \in PyObjects, v2 \in PyObjects} :
                    d[1].k # d[2].k}

\* Series::create
SeriesCreate(pylist) ==
    IF pylist.kind = "ints" THEN [ok |-> TRUE, series |-> [dtype |-> "Int", items |-> pylist.items]]
    ELSE [ok |-> FALSE, e |-> "Invalid item type"]

\* ConcreteArrayTrait::len for Series
SeriesLen(series) == Len(series.items)

\* HashMap::insert
Insert(item, k, v) == [c \in DOMAIN item \cup {k} |-> IF c = k THEN v ELSE item[c]]

\* DataFrame::create : the loop over pydict from its i-th entry on
RECURSIVE CreateFrom(_, _, _, _)
CreateFrom(pydict, i, item, length) ==
    IF i > Len(pydict) THEN [ok |-> TRUE, item |-> item]
    ELSE LET vec == SeriesCreate(pydict[i].v) IN
         IF ~vec.ok THEN [ok |-> FALSE, e |-> vec.e]
         ELSE LET len == IF length = <<>> THEN SeriesLen(vec.series) ELSE length[1] IN
              IF len # SeriesLen(vec.series)
              THEN [ok |-> FALSE, e |-> "Incompatible length columns provided"]
              ELSE CreateFrom(pydict, i + 1, Insert(item, pydict[i].k, vec.series), <<len>>)

\* DataFrame::__len__ : the length of whichever column values().next() yields
DfLens(item) == IF DOMAIN item = {} THEN {0} ELSE {SeriesLen(item[c]) : c \in DOMAIN item}

InitDf ==
    /\ GraphIdle
    /\ opcall = <<>> /\ opres = <<>>
    /\ program = <<>> /\ lineres = <<>> /\ mlres = <<>>
    /\ toks = <<>> /\ parseres = <<>> /\ ev = EvIdle
    /\ df = DfIdle

\* DataFrame(pydict)
DfCreate(pydict) ==
    /\ df.op = "none"
    /\ LET r == CreateFrom(pydict, 1, <<>>, <<>>) IN
       df' = IF r.ok
             THEN [item |-> r.item, prev |-> <<>>, op |-> "create", key |-> "", len |-> 0, ret |-> "Ok"]
             ELSE [DfIdle EXCEPT !.op = "create_failed", !.ret = r.e]
    /\ UNCHANGED <<gvars, opcall, opres, program, lineres, mlres, toks, parseres, ev>>

\* DataFrame::__setitem__(index, value)
DfSetItem(key, value) ==
    /\ df.op \in {"create", "setitem"}
    /\ LET v == SeriesCreate(value) IN
       IF ~v.ok
       THEN df' = [df EXCEPT !.prev = df.item, !.op = "setitem", !.key = key, !.len = 0, !.ret = v.e]
       ELSE \E current_length \in DfLens(df.item) :
               IF current_length # 0 /\ current_length # SeriesLen(v.series)
               THEN df' = [df EXCEPT !.prev = df.item, !.op = "setitem", !.key = key,
                                     !.len = SeriesLen(v.series),
                                     !.ret = "Incompatible length series inserted!"]
               ELSE df' = [df EXCEPT !.item = Insert(df.item, key, v.series), !.prev = df.item,
                                     !.op = "setitem", !.key = key,
                                     !.len = SeriesLen(v.series), !.ret = "Ok"]
    /\ UNCHANGED <<gvars, opcall, opres, program, lineres, mlres, toks, parseres, ev>>

NextDf ==
    \/ \E pydict \in PyDicts : DfCreate(pydict)
    \/ \E key \in ColNames, value \in PyObjects : DfSetItem(key, value)

SpecDf == InitDf /\ [][NextDf]_vars

\* ================================================================ properties
\* The arithmetic reading of an expression tree (left-child op right-child)
RECURSIVE IsIntTree(_)
IsIntTree(p) ==
    IF p.token.t = "Term" THEN p.token.kind = "IntV" /\ p.dependencies = <<>>
    ELSE /\ p.token.t \in {"Plus", "Mul", "Neg"}
         /\ Len(p.dependencies) = 2
         /\ IsIntTree(p.dependencies[1]) /\ IsIntTree(p.dependencies[2])

RECURSIVE TreeValue(_)
TreeValue(p) ==
    IF p.token.t = "Term" THEN p.token.val
    ELSE LET a == TreeValue(p.dependencies[1])
             b == TreeValue(p.dependencies[2])
         IN CASE p.token.t = "Plus" -> a + b
              [] p.token.t = "Mul"  -> a * b
              [] p.token.t = "Neg"  -> a - b

\* the graph was built, subscribed to once, then initialised once by `kind`, and the call is over
OneCallDone(kind) ==
    /\ gstate = "built" /\ calls = <<kind>> /\ mode = "none"
    /\ ExtChans = {ExtChan(1)}
    /\ chans[ExtChan(1)].at = 0

\* channels registered before the first initialisation call
EarlyExt == {c \in ExtChans : chans[c].at = 0}
Outs(i) == {ops[i].broadcasts_to[k] : k \in 1..Len(ops[i].broadcasts_to)}
EarlyOuts(i) == {c \in Outs(i) : chans[c].at = 0}
\* values a receiver has taken out of channel c
Popped(c) == chans[c].n - Len(chans[c].q)

\* C1: for a tree of integer literals and two-child Plus/Mul/Neg nodes, after
\* build, one subscribe() and one initialize(), the root channel holds exactly
\* the one-element Int vector of the tree's arithmetic value.
C1_SeqRootValue ==
    (OneCallDone("seq") /\ IsIntTree(tree) /\ chans[ExtChan(1)].rx)
        => /\ ret = "Ok"
           /\ chans[ExtChan(1)].q = <<Var("Int", <<TreeValue(tree)>>)>>

\* C1 witness: "5 * (10 + 3)" evaluated sequentially delivered [65]
C1_Witness ==
    /\ OneCallDone("seq") /\ tree = Tree65
    /\ chans[ExtChan(1)].q = <<Var("Int", <<65>>)>>

\* What sequential initialize() delivers on the same graph, all channels empty
\* and all receivers held, as the graph is before its first initialisation
SeqReference ==
    InitializeFrom(ops, [c \in DOMAIN chans |-> EmptyChan(0)], SeqIter(ops), 1)

\* C2: whenever a first initialize_par_iter() has completed with every node
\* computing without error, each subscriber of the root holds exactly what
\* sequential initialize() delivers for the same graph, whatever the schedule.
C2_ParEqualsSeq ==
    (gstate = "built" /\ calls = <<"par">> /\ mode = "none" /\ ret = "Ok")
        => /\ SeqReference.ret = "Ok"
           /\ \A c \in EarlyExt : chans[c].q = SeqReference.chans[c].q

\* C2 witness: a two-worker pool has completed "5 * (10 + 3)" and delivered [65]
C2_Witness ==
    /\ OneCallDone("par") /\ tree = Tree65 /\ nworkers = 2 /\ ret = "Ok"
    /\ chans[ExtChan(1)].q = <<Var("Int", <<65>>)>>

\* C3: once a node's compute() has succeeded, every channel subscribed on it
\* before the call has been handed exactly one value, the values are equal
\* across the subscribers, and an outside subscriber holds it in its channel.
C3_FanOutEqual ==
    \A i \in 1..Len(ops) :
        (Len(calls) = 1 /\ task[i].pc = "ok")
            => /\ \A c \in EarlyOuts(i) : chans[c].n = 1
               /\ \A c, d \in EarlyOuts(i) : chans[c].last = chans[d].last
               /\ \A c \in EarlyOuts(i) : IsExt(c) => chans[c].q = <<chans[c].last>>

\* C3 witness: a node with two subscribers computed and both hold the value
C3_Witness ==
    /\ gstate = "built" /\ Len(calls) = 1 /\ task[1].pc = "ok"
    /\ Cardinality(EarlyOuts(1)) = 2
    /\ \A c \in EarlyOuts(1) : chans[c].q # <<>>

\* C4 (as claimed): however often the graph is initialised, no node computes
\* twice and no sender carries a second value.
C4_ExactlyOnce ==
    /\ \A i \in 1..Len(ops) : ncompute[i] <= 1
    /\ \A c \in DOMAIN chans : chans[c].n <= 1

\* C5: a BinaryOperator has never sent more often than it has received from
\* lhs and from rhs, and what it sent is f applied to the value that came
\* through lhs and the value that came through rhs.
C5_SendAfterBothInputs ==
    \A i \in 1..Len(ops) :
        ops[i].kind = "BinOp" =>
            \A c \in Outs(i) :
                /\ chans[c].n <= Popped(ops[i].lhs)
                /\ chans[c].n <= Popped(ops[i].rhs)
                /\ (Len(calls) = 1 /\ chans[c].n > 0)
                      => /\ task[i].l = chans[ops[i].lhs].last
                         /\ task[i].r = chans[ops[i].rhs].last
                         /\ chans[c].last = F(ops[i].f, task[i].l, task[i].r).val

\* C5 witness: in a parallel run an inner BinaryOperator has sent its result
\* while its parent is still waiting
C5_Witness ==
    /\ mode = "par" /\ Len(ops) = 5
    /\ \E i \in 2..Len(ops) :
          /\ ops[i].kind = "BinOp" /\ task[i].pc = "ok"
          /\ \A c \in Outs(i) : chans[c].n = 1
    /\ task[1].pc = "recv_lhs"

\* C6 (as claimed): a finished initialize() has called compute() on each node
\* exactly once.
C6_EveryNodeOnce ==
    (gstate = "built" /\ calls = <<"seq">> /\ mode = "none")
        => \A i \in 1..Len(ops) : ncompute[i] = 1

\* C6 (amended): initialize() calls compute() at most once per node, in
\* reverse list order, and stops at the first compute() that fails (every node
\* exactly once when none fails); whenever a BinaryOperator's compute() is
\* called both of its inbound channels hold a value, so no receive blocks.
C6_ReverseOrderNoBlock ==
    (gstate = "built" /\ calls = <<"seq">>)
        => /\ \A i \in 1..Len(ops) :
                 /\ ncompute[i] <= 1
                 /\ (ncompute[i] = 1) <=> (task[i].pc # "idle")
           /\ \A i, j \in 1..Len(ops) : (i < j /\ ncompute[i] = 1) => task[j].pc = "ok"
           /\ (mode = "none" /\ ret = "Ok") => \A i \in 1..Len(ops) : ncompute[i] = 1
           /\ (mode = "none" /\ ret # "Ok")
                 => \E k \in 1..Len(ops) :
                       /\ task[k].pc = "err" /\ ret = task[k].e
                       /\ \A i \in 1..(k - 1) : ncompute[i] = 0
           /\ \A i \in 1..Len(ops) :
                 /\ task[i].pc = "recv_lhs"
                       => chans[ops[i].lhs].q # <<>> /\ chans[ops[i].rhs].q # <<>>
                 /\ task[i].pc = "recv_rhs" => chans[ops[i].rhs].q # <<>>

\* C6 witness: sequential initialisation has reached an inner BinaryOperator
\* whose two inputs are waiting in its channels
C6_Witness ==
    /\ calls = <<"seq">> /\ mode = "seq" /\ Len(ops) = 5
    /\ \E i \in 2..Len(ops) :
          /\ task[i].pc = "recv_lhs"
          /\ chans[ops[i].lhs].q # <<>> /\ chans[ops[i].rhs].q # <<>>

\* critical-path depth of an expression tree
RECURSIVE Depth(_)
Depth(p) ==
    IF p.dependencies = <<>> THEN 1
    ELSE LET a == Depth(p.dependencies[1])
             b == Depth(p.dependencies[2])
         IN 1 + (IF a >= b THEN a ELSE b)

\* node j lies below node i in the expression
Upstream(j, i) ==
    /\ Len(ops[i].path) < Len(ops[j].path)
    /\ SubSeq(ops[j].path, 1, Len(ops[i].path)) = ops[i].path

\* the channel a running BinaryOperator is about to receive from
AwaitChan(i) == IF task[i].pc = "recv_lhs" THEN ops[i].lhs ELSE ops[i].rhs

\* fewer workers than the tree is deep, and each of them holds a BinaryOperator
\* that waits on an empty channel while a node upstream of it is not dispatched
Starved ==
    /\ mode = "par" /\ nworkers < Depth(tree)
    /\ Busy = nworkers
    /\ \A i \in 1..Len(ops) :
          Running(i) => /\ ops[i].kind = "BinOp"
                        /\ chans[AwaitChan(i)].q = <<>>
                        /\ \E j \in 1..Len(ops) : Upstream(j, i) /\ task[j].pc = "idle"

\* C7: in a starved pool no step of any compute() and no return of
\* initialize_par_iter() is enabled: the call is deadlocked.
C7_StarvedPoolDeadlocks == Starved => ~ENABLED ComputeStep

\* C7 witness: both workers of a two-worker pool are blocked in a tree of depth 3
C7_Witness == Starved /\ nworkers = 2 /\ Depth(tree) = 3

\* the node whose output travels through the inbound channel c
ProducerOf(c) == CHOOSE j \in 1..Len(ops) : ops[j].path = c

\* C8 (as claimed): when a compute() fails during initialize_par_iter(), no
\* other node is left in a receive that waits for the failed node's output
\* (such a node never finishes, so the call never returns its failure).
C8_NoneWaitsOnFailedNode ==
    \A i \in 1..Len(ops) :
        (mode = "par" /\ Running(i))
            => ~(/\ chans[AwaitChan(i)].q = <<>>
                 /\ task[ProducerOf(AwaitChan(i))].pc = "err")

\* C9 (as claimed): a compute() that failed has handed no value to any subscriber.
C9_FailureSendsNothing ==
    \A i \in 1..Len(ops) :
        (Len(calls) = 1 /\ task[i].pc = "err") => \A c \in Outs(i) : chans[c].n = 0

\* positions of the nodes of an expression tree
RECURSIVE TreePaths(_, _)
TreePaths(p, path) ==
    {path} \cup UNION {TreePaths(p.dependencies[k], path \o <<k>>) : k \in 1..Len(p.dependencies)}

RECURSIVE SubTree(_, _)
SubTree(p, path) == IF path = <<>> THEN p ELSE SubTree(p.dependencies[Head(path)], Tail(path))

\* the graph node is the one built for tree node sub
BuiltFor(node, sub) ==
    IF sub.token.t = "Term"
    THEN node.kind = "Constant" /\ node.item.v = <<sub.token.val>>
    ELSE /\ node.kind = "BinOp"
         /\ node.f = (CASE sub.token.t = "Plus" -> "add" [] sub.token.t = "Mul" -> "mul" [] OTHER -> "sub")
         /\ node.lhs = node.path \o <<1>> /\ node.rhs = node.path \o <<2>>

\* C10: in a built graph the first element is the node of the tree's root, the
\* other elements are the nodes of its descendants, one per tree node, and
\* every ExecutionGraph::subscribe() channel is registered on the first element.
C10_RootFirst ==
    gstate = "built"
        => /\ ops[1].path = <<>>
           /\ {ops[i].path : i \in 1..Len(ops)} = TreePaths(tree, <<>>)
           /\ Len(ops) = Cardinality(TreePaths(tree, <<>>))
           /\ \A i \in 1..Len(ops) : BuiltFor(ops[i], SubTree(tree, ops[i].path))
           /\ \A c \in ExtChans : /\ c \in Outs(1)
                                  /\ \A i \in 2..Len(ops) : c \notin Outs(i)

\* C10 witness: a five-node graph with a subscription on its first element
C10_Witness ==
    /\ gstate = "built" /\ Len(ops) = 5 /\ ops[1].path = <<>>
    /\ ExtChan(1) \in Outs(1)
\* the operator a token stands for, on two i64 / two f64 elements
IntOp(tok, a, b) ==
    CASE tok.t = "Plus" -> a + b
      [] tok.t = "Mul"  -> a * b
      [] tok.t = "Neg"  -> a - b
F64Op(tok, a, b) ==
    CASE tok.t = "Plus" -> F64Add(a, b)
      [] tok.t = "Mul"  -> F64Mul(a, b)
      [] tok.t = "Neg"  -> F64Sub(a, b)
\* an element as the closure sees it when the result is a Float vector
Promoted(d, a) == IF d = "Int" THEN AsF64(a) ELSE a

C12_ZipTruncates ==
    (opres # <<>> /\ {opcall[1].x.dtype, opcall[1].y.dtype} \subseteq {"Int", "Float"})
        => LET x == opcall[1].x
               y == opcall[1].y
               n == IF Len(x.v) <= Len(y.v) THEN Len(x.v) ELSE Len(y.v)
           IN /\ opres[1].ok
              /\ Len(opres[1].val.v) = n
              /\ \A i \in 1..n :
                    opres[1].val.v[i] =
                        IF x.dtype = "Int" /\ y.dtype = "Int"
                        THEN IntOp(opcall[1].tok, x.v[i], y.v[i])
                        ELSE F64Op(opcall[1].tok, Promoted(x.dtype, x.v[i]), Promoted(y.dtype, y.v[i]))

\* C12 witness: a 2-element and a 3-element vector gave a 2-element result
C12_Witness ==
    /\ opres # <<>> /\ opres[1].ok
    /\ Len(opcall[1].x.v) = 2 /\ Len(opcall[1].y.v) = 3 /\ Len(opres[1].val.v) = 2
    /\ opcall[1].y.v[1] # opcall[1].y.v[2]
\* the tree holds a variable term
RECURSIVE HasVarTerm(_)
HasVarTerm(p) ==
    \/ p.token.t = "Term" /\ p.token.kind = "Var"
    \/ \E k \in 1..Len(p.dependencies) : HasVarTerm(p.dependencies[k])

\* terms under two-child Plus / Mul / Neg nodes only
RECURSIVE IsArithTree(_)
IsArithTree(p) ==
    IF p.token.t = "Term" THEN p.dependencies = <<>>
    ELSE /\ p.token.t \in {"Plus", "Mul", "Neg"}
         /\ Len(p.dependencies) = 2
         /\ IsArithTree(p.dependencies[1]) /\ IsArithTree(p.dependencies[2])

\* C13 (as claimed): build_execution_graph on a variable term, or on a
\* Plus/Mul/Neg tree holding one, returns the build failure Err(()): no graph,
\* and no abort of the program.
C13_VarTermBuildFails ==
    (gstate # "unbuilt" /\ IsArithTree(tree) /\ HasVarTerm(tree)) => gstate = "build_err"

DigitChar(d) == <<"0", "1", "2", "3", "4", "5", "6", "7", "8", "9">>[d + 1]
RECURSIVE ReprI64(_)
ReprI64(n) == IF n < 10 THEN <<DigitChar(n)>> ELSE Append(ReprI64(n \div 10), DigitChar(n % 10))
RECURSIVE FracDigits(_, _)
FracDigits(m, e) == IF e = 0 THEN <<>> ELSE Append(FracDigits(m \div 10, e - 1), DigitChar(m % 10))
ReprF64(f) ==
    ReprI64(f.m \div Pow10(f.e)) \o <<".">>
        \o (IF f.e = 0 THEN <<"0">> ELSE FracDigits(f.m % Pow10(f.e), f.e))
ReprTerm(t) ==
    CASE t.kind = "IntV"   -> ReprI64(t.val)
      [] t.kind = "FloatV" -> ReprF64(t.val)
      [] t.kind = "BoolV"  -> IF t.val = 1 THEN <<"t", "r", "u", "e">> ELSE <<"f", "a", "l", "s", "e">>

\* literal terms and their texts
LitTerms ==
    {TermTok("IntV", n) : n \in 0..111}
        \cup {TermTok("FloatV", F64(m, e)) : m \in 0..151, e \in 0..2}
        \cup {TermTok("BoolV", b) : b \in {0, 1}}
LitTexts == {[t |-> t, text |-> ReprTerm(t)] : t \in LitTerms}

\* the k-th finished lex(): its line and its result
LexedLine(k) == ParLines(program)[lineres[k].line]
LexedRes(k)  == lineres[k].res

\* C15: lex of the text of an integer, float or boolean literal returns exactly
\* one token, the Term holding the literal; lex of '-' followed by the text of
\* a numeric literal returns Neg and then the Term of the non-negative literal.
C15_LiteralRoundTrip ==
    \A k \in 1..Len(lineres) :
        LET l == LexedLine(k)
            r == LexedRes(k)
        IN \A p \in LitTexts :
              /\ l = p.text => r = LexOk(<<p.t>>)
              /\ (p.t.kind # "BoolV" /\ l = <<"-">> \o p.text) => r = LexOk(<<OpTok("Neg"), p.t>>)

\* C15 witness: "-1.5" was lexed to Neg, FloatV(1.5)
C15_Witness ==
    /\ program = <<"-", "1", ".", "5">> /\ Len(lineres) = 1
    /\ LexedRes(1) = LexOk(<<OpTok("Neg"), TermTok("FloatV", F64(15, 1))>>)

\* the characters that occur in lexable lines
TokenAlphabet ==
    Digits \cup Lower \cup {"(", ")", "+", "-", "*", "<", ">", "&", "|", "!", "=", ".", ":", " "}
HasOutsideChar(l) == \E i \in 1..Len(l) : l[i] \notin TokenAlphabet
\* a numeric literal (a digit, then digits and dots) reaches a second '.'
HasSecondDot(l) ==
    \E i, j \in 1..Len(l) :
        /\ 1 < i /\ i < j /\ l[i] = "." /\ l[j] = "." /\ l[i - 1] \in Digits
        /\ \A k \in (i + 1)..(j - 1) : l[k] \in Digits

\* C16: lex of a line in which a numeric literal holds a second '.', or which
\* holds a character outside the token alphabet, is a LexError and carries no
\* tokens, however many valid tokens come before the offending character.
C16_FailsWithoutTokens ==
    \A k \in 1..Len(lineres) :
        LET l == LexedLine(k)
            r == LexedRes(k)
        IN (HasOutsideChar(l) \/ HasSecondDot(l)) => ~r.ok /\ DOMAIN r = {"ok", "substr"}

\* C16 witness: "-1.5F" failed although Neg and 1.5 come before the 'F'
C16_Witness ==
    /\ program = <<"-", "1", ".", "5", "F">> /\ Len(lineres) = 1
    /\ ~LexedRes(1).ok /\ LexedRes(1).substr = <<"Unexpected character: ", "F">>

\* the keywords and their tokens
Keywords ==
    {[text |-> <<"t", "r", "u", "e">>, tok |-> TermTok("BoolV", 1)],
     [text |-> <<"f", "a", "l", "s", "e">>, tok |-> TermTok("BoolV", 0)],
     [text |-> <<"s", "i", "n">>, tok |-> OpTok("Sin")],
     [text |-> <<"c", "o", "s">>, tok |-> OpTok("Cos")]}
IsPrefix(a, l) == Len(a) <= Len(l) /\ SubSeq(l, 1, Len(a)) = a

\* C17 (as claimed): lex of exactly a keyword returns its single token, and a
\* line that starts with the first letter of a keyword without the rest of
\* that keyword following is a LexError.
C17_Keywords ==
    \A k \in 1..Len(lineres) : \A w \in Keywords :
        /\ LexedLine(k) = w.text => LexedRes(k) = LexOk(<<w.tok>>)
        /\ (LexedLine(k) # <<>> /\ LexedLine(k)[1] = w.text[1] /\ ~IsPrefix(w.text, LexedLine(k)))
              => ~LexedRes(k).ok

\* the failure fragments of the failing lines, in line order
FailedFragments ==
    LET failures == SelectSeq(Collected, LAMBDA r : ~r.ok)
    IN [i \in 1..Len(failures) |-> failures[i].substr]

\* C18 (as claimed): whatever the order in which the lines were lexed,
\* lex_multiline returns one token sequence per line in line order when every
\* line lexes, and otherwise a single LexError whose message is the failure
\* fragments of the failing lines joined by newlines, with no token sequence.
C18_MultilineResult ==
    mlres # <<>> =>
        IF \A i \in 1..Len(lineres) : ResultOf(i).ok
        THEN mlres[1] = [ok |-> TRUE, toks |-> [i \in 1..Len(lineres) |-> Lex(ParLines(program)[i]).toks]]
        ELSE /\ ~mlres[1].ok /\ "toks" \notin DOMAIN mlres[1]
             /\ LexErrorDisplay(mlres[1]) = JoinNL(FailedFragments)

\* The same with the error's substr field in the place of its message: holds.
LexMultilineAggregates ==
    mlres # <<>> =>
        IF \A i \in 1..Len(lineres) : ResultOf(i).ok
        THEN mlres[1] = [ok |-> TRUE, toks |-> [i \in 1..Len(lineres) |-> Lex(ParLines(program)[i]).toks]]
        ELSE /\ ~mlres[1].ok /\ "toks" \notin DOMAIN mlres[1]
             /\ mlres[1].substr = JoinNL(FailedFragments)
\* the arity of every node fits its token
RECURSIVE ArityOk(_)
ArityOk(p) ==
    /\ CASE p.token.t = "Term"            -> Len(p.dependencies) = 0
          [] p.token.t \in {"Sin", "Cos"}  -> Len(p.dependencies) = 1
          [] p.token.t \in {"Neg", "Plus"} -> Len(p.dependencies) \in {1, 2}
          [] p.token.t \in InfixToks       -> Len(p.dependencies) = 2
          [] OTHER                         -> FALSE
    /\ \A k \in 1..Len(p.dependencies) : ArityOk(p.dependencies[k])

\* the tokens of a tree, read left to right (infix for two children, prefix for one)
RECURSIVE Flat(_)
Flat(p) ==
    CASE Len(p.dependencies) = 0 -> <<p.token>>
      [] Len(p.dependencies) = 1 -> <<p.token>> \o Flat(p.dependencies[1])
      [] OTHER -> Flat(p.dependencies[1]) \o <<p.token>> \o Flat(p.dependencies[2])

NoParens(ts) == SelectSeq(ts, LAMBDA t : t.t \notin {"LeftParen", "RightParen"})

\* C19: every tree parse returns has 0 children at a term node, 1 child at a
\* node made from a leading unary token and 2 children at a node made from an
\* infix token (a Neg or Plus node: 1 where the token led an expr, 2 where it
\* followed a term), and its nodes are the tokens parsed, parentheses apart.
C19_ArityInvariant ==
    (parseres # <<>> /\ parseres[1].ok)
        => /\ ArityOk(parseres[1].node)
           /\ Flat(parseres[1].node) = NoParens(toks)

\* C19 witness: `sin ( 1 * 2 )`-like input gave a unary node over a binary node
C19_Witness ==
    /\ parseres # <<>> /\ parseres[1].ok
    /\ Len(parseres[1].node.dependencies) = 1
    /\ Len(parseres[1].node.dependencies[1].dependencies) = 2

\* an unparenthesised chain  t1 op1 t2 op2 ... tn
IsChain(ts) ==
    /\ Len(ts) % 2 = 1
    /\ \A i \in 1..Len(ts) : IF i % 2 = 1 THEN ts[i].t = "Term" ELSE ts[i].t \in InfixToks
RECURSIVE RightNested(_)
RightNested(ts) ==
    IF Len(ts) = 1 THEN ParseNode(ts[1], <<>>)
    ELSE ParseNode(ts[2], <<ParseNode(ts[1], <<>>), RightNested(SubSeq(ts, 3, Len(ts)))>>)

\* what the root subscriber receives when the tree is built, subscribed to and initialised
EvalTree(p) ==
    LET b == BuildExecutionGraph(p, <<>>)
        g == NodeSubscribe(b.ops, CurrentMut(b.ops), ExtChan(1))
    IN InitializeFrom(g, [c \in ChansOf(g) |-> EmptyChan(0)], SeqIter(g), 1).chans[ExtChan(1)].q

\* C20: parse of a chain t1 op1 t2 op2 ... tn returns the right-nested tree
\* op1(t1, op2(t2, ...)), and the tree of "10 - 3 - 2" evaluates to [9].
C20_RightNested ==
    (parseres # <<>> /\ IsChain(toks))
        => /\ parseres[1] = [ok |-> TRUE, node |-> RightNested(toks)]
           /\ toks = Lex(Line1032).toks => EvalTree(parseres[1].node) = <<Var("Int", <<9>>)>>

\* C20 witness: "10 - 3 - 2" was parsed as 10 - (3 - 2)
C20_Witness ==
    /\ parseres # <<>> /\ toks = Lex(Line1032).toks /\ parseres[1].ok
    /\ parseres[1].node.dependencies[2].token = OpTok("Neg")
    /\ EvalTree(parseres[1].node) = <<Var("Int", <<9>>)>>
CountOf(ts, kind) == Len(SelectSeq(ts, LAMBDA t : t.t = kind))

\* the group opened by the left-paren at position i is closed by a right-paren
\* immediately after its inner expr
GroupClosed(ts, i) ==
    LET sub == ParseExpr(SubSeq(ts, i + 1, Len(ts)))
    IN sub.ok /\ sub.rest # <<>> /\ Head(sub.rest).t = "RightParen"

\* C21: parse returns ParseError and no tree for the empty sequence, when
\* tokens remain after one complete expr, and when a left-paren group is not
\* closed right after its inner expr; a returned tree accounts for every token.
C21_ParseErrors ==
    parseres # <<>> =>
        /\ toks = <<>> => parseres[1] = ParseError
        /\ (ParseExpr(toks).ok /\ ParseExpr(toks).rest # <<>>) => parseres[1] = ParseError
        /\ (\E i \in 1..Len(toks) : toks[i].t = "LeftParen" /\ ~GroupClosed(toks, i))
               => parseres[1] = ParseError
        /\ parseres[1].ok =>
              /\ DOMAIN parseres[1] = {"ok", "node"}
              /\ CountOf(toks, "LeftParen") = CountOf(toks, "RightParen")
              /\ Len(Flat(parseres[1].node)) + 2 * CountOf(toks, "LeftParen") = Len(toks)

\* C21 witness: `( 1 ) 2` has a closed group and a leftover token, and was refused
C21_Witness ==
    /\ toks = <<OpTok("LeftParen"), TermTok("IntV", 1), OpTok("RightParen"), TermTok("IntV", 2)>>
    /\ parseres = <<ParseError>>
\* what one line evaluates to on its own when nothing fails
LineValue(l) ==
    LET lexed  == Lex(l)
        parsed == IF lexed.ok THEN Parse(lexed.toks) ELSE ParseError
        built  == IF parsed.ok THEN BuildExecutionGraph(parsed.node, <<>>) ELSE BuildErr
    IN IF built.st = "ok" THEN EvalTree(parsed.node) ELSE <<>>

\* C22: evaluate on N lines returns N results, the i-th that of line i, or fails as a whole.
C22_AllLinesOrFailure ==
    (ev.pc = "returned" /\ ev.out[1].ok)
        => /\ Len(ev.out[1].results) = Len(ParLines(program))
           /\ \A i \in 1..Len(ParLines(program)) :
                  <<ev.out[1].results[i]>> = LineValue(ParLines(program)[i])

\* a job of the running initialize_par_iter waits in recv() for a value that no
\* job still to run or running will send
EvalBlocked ==
    /\ ev.pc = "subscribed" /\ mode = "par"
    /\ \E i \in 1..Len(ops) : Running(i)
    /\ \A i \in 1..Len(ops) : task[i].pc \in {"ok", "err", "recv_lhs", "recv_rhs"}
    /\ \A i \in 1..Len(ops) :
          Running(i) => chans[IF task[i].pc = "recv_lhs" THEN ops[i].lhs ELSE ops[i].rhs].q = <<>>

\* C23: evaluate reports every failure as a returned error: it never panics and never blocks forever.
C23_NoAbortNoHang == ev.pc # "panic" /\ ~EvalBlocked
\* the running parallel call has a worker for every node and no operand that makes f fail
ParCallWellProvided == mode = "par" /\ nworkers >= Len(ops) /\ IsIntTree(tree)

ParCallSucceeded ==
    /\ mode = "none" /\ ret = "Ok"
    /\ \A i \in 1..Len(ops) : ncompute[i] = 1 /\ task[i].pc = "ok"
    /\ \A c \in EarlyExt : chans[c].q = <<Var("Int", <<TreeValue(tree)>>)>>

\* C24: with at least as many workers as nodes and no failing compute(), fair
\* workers bring initialize_par_iter() to return Ok, whatever the dispatch
\* order, with every node computed once and every root subscriber holding the result.
C24_ParTerminates == ParCallWellProvided ~> ParCallSucceeded

\* C24 witness: five workers have completed the five nodes of "5 * (10 + 3)" for one subscriber
C24_Witness ==
    /\ tree = Tree65 /\ nworkers = 5 /\ calls = <<"par">> /\ ParCallSucceeded
    /\ EarlyExt = {ExtChan(1)}
\* one sequential initialize() was made on the graph and returned an error
SeqFailed == gstate = "built" /\ calls = <<"seq">> /\ mode = "none" /\ ret \notin {"Ok", "none"}

\* C25: when a compute() fails during initialize(), the call returns that
\* node's error at once: the nodes before it in the list are never computed,
\* the nodes after it have computed and their values stay sent, and no
\* subscriber of the root has been handed anything.
C25_SeqFailureStops ==
    SeqFailed =>
        \E i \in 1..Len(ops) :
            /\ task[i].pc = "err" /\ task[i].e = ret
            /\ \A j \in 1..(i - 1) : ncompute[j] = 0 /\ task[j].pc = "idle"
            /\ \A j \in (i + 1)..Len(ops) :
                  task[j].pc = "ok" /\ \A c \in EarlyOuts(j) : chans[c].n = 1
            /\ \A c \in EarlyExt : chans[c].n = 0 /\ chans[c].q = <<>>
\* what does hold of a failed initialize(): as C25, except that the failing node
\* itself may have served the subscribers registered before the one whose send failed
SeqFailureStopsAtNode ==
    SeqFailed =>
        \E i \in 1..Len(ops) :
            /\ task[i].pc = "err" /\ task[i].e = ret
            /\ \A j \in 1..(i - 1) : ncompute[j] = 0 /\ task[j].pc = "idle"
            /\ \A j \in (i + 1)..Len(ops) :
                  task[j].pc = "ok" /\ \A c \in EarlyOuts(j) : chans[c].n = 1
            /\ i # 1 => \A c \in EarlyExt : chans[c].n = 0 /\ chans[c].q = <<>>
\* the two-character operators, and the tokens of their first characters alone
TwoCharOps ==
    {[text |-> <<"<", "=">>, tok |-> OpTok("Le")], [text |-> <<">", "=">>, tok |-> OpTok("Ge")],
     [text |-> <<"!", "=">>, tok |-> OpTok("Ne")], [text |-> <<"=", "=">>, tok |-> OpTok("Eq")],
     [text |-> <<"&", "&">>, tok |-> OpTok("And")], [text |-> <<"|", "|">>, tok |-> OpTok("Or")]}
OneCharOps ==
    {[text |-> <<"<">>, tok |-> OpTok("Lt")], [text |-> <<">">>, tok |-> OpTok("Gt")],
     [text |-> <<"!">>, tok |-> OpTok("Not")]}
StartsTwoCharOp(l) == \E w \in TwoCharOps : IsPrefix(w.text, l)
\* token tok, then what lex makes of the characters cs
TokThenLex(tok, cs) == IF Lex(cs).ok THEN LexOk(<<tok>> \o Lex(cs).toks) ELSE Lex(cs)

\* C26: a line that starts with a two-character operator lexes to that one
\* token followed by the lexing of what comes after both characters; a line
\* that starts with '<', '>' or '!' without the second character lexes to Lt,
\* Gt or Not followed by the lexing of what comes after the one character; a
\* line that starts with a lone '&', '|' or '=' is a LexError.
C26_TwoCharOperators ==
    \A k \in 1..Len(lineres) :
        LET l == LexedLine(k)
            r == LexedRes(k)
        IN /\ \A w \in TwoCharOps :
                 IsPrefix(w.text, l) => r = TokThenLex(w.tok, SubSeq(l, 3, Len(l)))
           /\ \A w \in OneCharOps :
                 (IsPrefix(w.text, l) /\ ~StartsTwoCharOp(l)) => r = TokThenLex(w.tok, Tail(l))
           /\ (l # <<>> /\ Head(l) \in {"&", "|", "="} /\ ~StartsTwoCharOp(l))
                 => ~r.ok /\ DOMAIN r = {"ok", "substr"}

\* C26 witness: "<=<" was lexed to Le, Lt
C26_Witness ==
    /\ program = <<"<", "=", "<">> /\ Len(lineres) = 1
    /\ LexedRes(1) = LexOk(<<OpTok("Le"), OpTok("Lt")>>)
\* the maximal run of lowercase letters at the start of cs
RECURSIVE LowerRun(_)
LowerRun(cs) == IF cs # <<>> /\ Head(cs) \in Lower THEN <<Head(cs)>> \o LowerRun(Tail(cs)) ELSE <<>>

\* C27 (as claimed): a line that starts with ':' and a run of one or more
\* lowercase letters lexes to the variable term of that name followed by the
\* lexing of what comes after the run; a ':' with no lowercase letter after it
\* is not accepted, so no variable term has the empty name.
C27_VariableNeedsName ==
    \A k \in 1..Len(lineres) :
        LET l == LexedLine(k)
            r == LexedRes(k)
        IN /\ (l # <<>> /\ Head(l) = ":") =>
                 LET name == LowerRun(Tail(l)) IN
                 IF name # <<>>
                 THEN r = TokThenLex(TermTok("Var", name), SubSeq(l, Len(name) + 2, Len(l)))
                 ELSE ~r.ok
           /\ r.ok => \A i \in 1..Len(r.toks) : r.toks[i].kind = "Var" => r.toks[i].val # <<>>
\* line l without its i-th character
Without(l, i) == SubSeq(l, 1, i - 1) \o SubSeq(l, i + 1, Len(l))
\* position p of a lexable line (0: its start, Len: its end) lies between two tokens
TokenBoundary(l, p) ==
    LET a == Lex(SubSeq(l, 1, p))
        b == Lex(SubSeq(l, p + 1, Len(l)))
    IN a.ok /\ b.ok /\ Lex(l) = LexOk(a.toks \o b.toks)
\* every lexed line that is a lexable line with one character of ws put in
\* between two tokens lexes as the line without it
InsertionKeepsTokens(ws) ==
    \A k \in 1..Len(lineres) :
        LET l == LexedLine(k)
            r == LexedRes(k)
        IN \A i \in 1..Len(l) :
              (l[i] \in ws /\ Lex(Without(l, i)).ok /\ TokenBoundary(Without(l, i), i - 1))
                  => r = Lex(Without(l, i))

\* C28 (as claimed): a space or a tab inserted between two adjacent tokens of a
\* lexable line, or at its start or end, leaves the token sequence unchanged.
C28_WhitespaceSkipped == InsertionKeepsTokens({" ", "\t"})

\* what does hold: the same for the space alone
SpaceSkipped == InsertionKeepsTokens({" "})

\* what does hold of ':' followed by letters: the variable named by the maximal run
VariableNamedByRun ==
    \A k \in 1..Len(lineres) :
        LET l == LexedLine(k)
            name == LowerRun(Tail(l))
        IN (l # <<>> /\ Head(l) = ":" /\ name # <<>>)
              => LexedRes(k) = TokThenLex(TermTok("Var", name), SubSeq(l, Len(name) + 2, Len(l)))
\* the grammar  expr -> term (binop expr)? | unop expr | '(' expr ')'  with the
\* unary tokens unops: the positions at which an expr that starts at token i of ts can end
RECURSIVE ExprEnds(_, _, _)
ExprEnds(ts, i, unops) ==
    IF i > Len(ts) THEN {}
    ELSE CASE ts[i].t = "Term" ->
                {i + 1} \cup (IF i + 1 <= Len(ts) /\ ts[i + 1].t \in InfixToks
                              THEN ExprEnds(ts, i + 2, unops) ELSE {})
           [] ts[i].t \in unops -> ExprEnds(ts, i + 1, unops)
           [] ts[i].t = "LeftParen" ->
                {j + 1 : j \in {e \in ExprEnds(ts, i + 1, unops) : e <= Len(ts) /\ ts[e].t = "RightParen"}}
           [] OTHER -> {}
Derivable(ts, unops) == (Len(ts) + 1) \in ExprEnds(ts, 1, unops)

BadShape(p) ==
    p.token.t # "Term" /\ (Len(p.dependencies) # 2 \/ p.token.t \in {"LeftParen", "RightParen"})
RECURSIVE HasBadShape(_)
HasBadShape(p) ==
    BadShape(p) \/ \E k \in 1..Len(p.dependencies) : HasBadShape(p.dependencies[k])

\* what build_execution_graph returns for the k-th child on its own
ChildBuild(k) == BuildExecutionGraph(tree.dependencies[k], <<k>>)

\* C30: build_execution_graph returns Err(()) and no graph for a node that is
\* neither a term nor a two-child operator; a two-child node with a child whose
\* build returns Err(()) returns Err(()) as well (unless the left child's build
\* aborts before the right child is looked at); no tree holding such a node
\* anywhere yields a graph.
C30_BadShapeFailsBuild ==
    gstate # "unbuilt" =>
        /\ BadShape(tree) => gstate = "build_err" /\ ops = <<>>
        /\ (Len(tree.dependencies) = 2 /\ \E k \in 1..2 : ChildBuild(k).st = "err")
              => /\ gstate # "built" /\ ops = <<>>
                 /\ ChildBuild(1).st # "panic" => gstate = "build_err"
        /\ HasBadShape(tree) => gstate # "built" /\ ops = <<>>

\* C30 witness: the unary Neg node over a term (as parsed from `- 3`) was refused
C30_Witness ==
    /\ gstate = "build_err" /\ ops = <<>>
    /\ tree = ParseNode(OpTok("Neg"), <<ParseNode(TermTok("IntV", 3), <<>>)>>)
\* channels obtained by subscribe() after the root's compute() of some call was over
LateExt == {c \in ExtChans : chans[c].at >= 1}

\* C31: a receiver obtained by subscribe() after a computation is sent nothing
\* of it; as long as no later initialisation call has been started its channel
\* is empty with its sender alive in the root's outbound list, so that a
\* blocking receive gets neither a value nor a disconnect; only a later call
\* sends to it, once per call at most.
C31_LateSubscriberBlocks ==
    \A c \in LateExt :
        /\ chans[c].n <= Len(calls) - chans[c].at
        /\ Len(calls) = chans[c].at
              => chans[c].n = 0 /\ chans[c].q = <<>> /\ SenderAlive(ops, c)

\* C31 witness: the root has computed and sent to the early subscriber; the
\* late subscriber's channel is empty and its sender alive
C31_Witness ==
    /\ calls = <<"seq">> /\ mode = "none" /\ ret = "Ok" /\ ncompute[1] = 1
    /\ ExtChans = {ExtChan(1), ExtChan(2)}
    /\ chans[ExtChan(1)].at = 0 /\ chans[ExtChan(1)].n = 1
    /\ chans[ExtChan(2)].at = 1 /\ chans[ExtChan(2)].rx
    /\ chans[ExtChan(2)].q = <<>> /\ SenderAlive(ops, ExtChan(2))
\* the places of a node list where channel c is sent on / received from
SendersOf(g, c) ==
    UNION {{<<i, k>> : k \in {n \in 1..Len(g[i].broadcasts_to) : g[i].broadcasts_to[n] = c}} : i \in 1..Len(g)}
ReceiversOf(g, c) ==
    {<<j, "lhs">> : j \in {n \in 1..Len(g) : g[n].kind = "BinOp" /\ g[n].lhs = c}}
        \cup {<<j, "rhs">> : j \in {n \in 1..Len(g) : g[n].kind = "BinOp" /\ g[n].rhs = c}}
\* the wiring between the nodes themselves: the root sends to no node, every
\* other node sends on one channel, received by one side of its parent only
Wired(g) ==
    /\ g[1].broadcasts_to = <<>>
    /\ \A i \in 2..Len(g) :
          /\ Len(g[i].broadcasts_to) = 1
          /\ \E r \in ReceiversOf(g, g[i].broadcasts_to[1]) :
                /\ ReceiversOf(g, g[i].broadcasts_to[1]) = {r}
                /\ g[r[1]].path = SubSeq(g[i].path, 1, Len(g[i].path) - 1)
    /\ \A j \in 1..Len(g) :
          g[j].kind = "BinOp" =>
              /\ g[j].lhs # g[j].rhs
              /\ Cardinality(SendersOf(g, g[j].lhs)) = 1
              /\ Cardinality(SendersOf(g, g[j].rhs)) = 1
\* the node list without the senders handed out by ExecutionGraph::subscribe
WithoutExt(g) == [i \in 1..Len(g) |-> [g[i] EXCEPT !.broadcasts_to = SelectSeq(@, LAMBDA c : ~IsExt(c))]]

\* C32: in a built graph, before any external subscribe, the root has no
\* outbound sender and every other node exactly one, received by lhs or rhs of
\* its parent alone, one sender and one receiver per channel; afterwards, through
\* every initialize() and initialize_par_iter(), the outbound lists are what
\* construction made them, plus the external senders on the root.
C32_Wiring ==
    gstate = "built" =>
        /\ ExtChans = {} => Wired(ops) /\ DOMAIN chans = {ops[i].path : i \in 2..Len(ops)}
        /\ WithoutExt(ops) = BuildExecutionGraph(tree, <<>>).ops
        /\ Wired(WithoutExt(ops))
        /\ \A i \in 2..Len(ops) : ops[i] = WithoutExt(ops)[i]
        /\ SelectSeq(ops[1].broadcasts_to, IsExt) = [k \in 1..Cardinality(ExtChans) |-> ExtChan(k)]

\* C32 witness: "5 * (10 + 3)" built and initialised in parallel with one subscriber, wiring intact
C32_Witness ==
    /\ tree = Tree65 /\ calls = <<"par">> /\ mode = "none" /\ ret = "Ok"
    /\ ops[1].broadcasts_to = <<ExtChan(1)>>
    /\ ops[2].broadcasts_to = <<ops[1].lhs>> /\ ops[3].broadcasts_to = <<ops[1].rhs>>
    /\ Len(ops) = 5 /\ Wired(WithoutExt(ops))
\* C33: after construction and any __setitem__ calls all columns of the frame
\* have one length: construction refuses columns of different lengths, a
\* __setitem__ whose series length differs from that of the existing columns
\* (empty columns included) returns the value error, and a refused __setitem__
\* leaves the frame as it was.
C33_ColumnsSameLength ==
    /\ \A c1 \in DOMAIN df.item, c2 \in DOMAIN df.item :
          SeriesLen(df.item[c1]) = SeriesLen(df.item[c2])
    /\ df.op = "setitem" =>
          /\ (df.ret # "Invalid item type" /\ \E c \in DOMAIN df.prev : SeriesLen(df.prev[c]) # df.len)
                => df.ret = "Incompatible length series inserted!"
          /\ df.ret # "Ok" => df.item = df.prev
====
